---- MODULE Spec2Model ----
(***************************************************************************)
(* A model of the howell-brain coordination engine: the task queue         *)
(* (task_queue.py), the instance registry (instance_registry.py), the      *)
(* deregister request handler (howell_daemon.py), the agents and handoffs  *)
(* tables of the agent stratigraphy (agent_db.py), the knowledge-graph     *)
(* tools (mcp_transport.py) and the store files (howell_bridge.py).        *)
(***************************************************************************)
EXTENDS Integers, Sequences, FiniteSets, TLC

(***************************************************************************)
(* Bounds and input domains                                                *)
(***************************************************************************)
\* number of create_task calls explored
MaxTasks == 2
\* total number of progress notes explored in the task store
MaxNotes == 1
\* how far the clock runs, in ticks
MaxClock == 1
\* number of create_handoff calls explored
MaxHandoffs == 2
\* longest observation list add-entity and add-observation build
MaxObs == 2
\* number of knowledge-graph tool calls made by the request threads
MaxRequests == 3
\* highest heartbeat_count explored in the instance registry
MaxBeats == 1

NULL == "null"

\* instance ids are opaque strings; the task store accepts any non-empty one
Instances == {"i1", "i2"}

\* agent ids, as create_agent is given them
AgentIds == {"a1", "a2"}

\* knowledge-graph entity names, observation strings and relation types
Names == {"alpha", "beta"}
Observations == {"o1", "o2"}
RelTypes == {"owns"}

\* request threads of the HTTP server calling knowledge-graph tools
KThreads == {"k1", "k2"}

\* KnowledgeGraph(): no entities, no relations
EmptyGraph == [entities |-> <<>>, relations |-> <<>>]

\* a request thread that has no tool call in flight
IdleTool == [pc |-> "idle", req |-> <<>>, local |-> EmptyGraph, ret |-> NULL]

\* client threads calling create_agent without an id
Creators == {"c1", "c2", "c3"}

\* the ids CH-YYMMDD-N of one day, by sequence number N
CHIds == <<"CH-YYMMDD-1", "CH-YYMMDD-2", "CH-YYMMDD-3">>

\* every id an agent row can have
AllAgentIds == AgentIds \cup { CHIds[n] : n \in DOMAIN CHIds }

\* the summaries end_agent is given
Summaries == {"s1", "s2"}

\* an agent's ended_at and end_summary columns as INSERT leaves them; a NULL
\* timestamp is <<>>, a set one is <<seconds>>
NotEnded == [ended_at |-> <<>>, end_summary |-> NULL]

\* an agent that has no claim_all_handoffs call in flight
IdleClaimAll == [pc |-> "idle", scope |-> <<>>, todo |-> {}, listed |-> {},
                 claimed |-> {}, raised |-> FALSE, known |-> FALSE]

\* no preview_context call made yet
NoPreview == [workspace |-> <<>>, ret |-> {}]

\* to_scope values: a workspace name, and "*" for all
ScopeW == <<"w">>
ScopeAll == <<"*">>
HandoffScopes == {ScopeW, ScopeAll}

EXPIRY_SECONDS == 600
\* the seconds in one tick of the clock: long enough for an instance that
\* sent no heartbeat during it to expire
TickSeconds == EXPIRY_SECONDS + 1

\* directory names are sequences of characters
DirSrc == <<"s", "r", "c">>

mkScope(f, d, t) == [files |-> f, directories |-> d, tags |-> t]

\* the scopes callers pass to create_task / update_task
ScopeChoices ==
    { mkScope({}, <<>>, {"ui"}),
      mkScope({}, <<>>, {"ui", "copy"}),
      mkScope({"a.py"}, <<DirSrc>>, {}) }

\* directory strings: src/, src/sub, srcs, src\sub, src\ and src//
DirSrcSlash == <<"s", "r", "c", "/">>
DirSrcSub == <<"s", "r", "c", "/", "s", "u", "b">>
DirSrcs == <<"s", "r", "c", "s">>
DirSrcBackSub == <<"s", "r", "c", "\\", "s", "u", "b">>
DirSrcBack == <<"s", "r", "c", "\\">>
DirSrcSlashSlash == <<"s", "r", "c", "/", "/">>
DirStrings == {DirSrc, DirSrcSlash, DirSrcSub, DirSrcs, DirSrcBackSub, DirSrcBack, DirSrcSlashSlash}

\* the scopes _scopes_overlap is called with
DirLists == {<<>>} \cup { <<d>> : d \in DirStrings } \cup {<<DirSrcs, DirSrcSub>>}
ScopeArgs == { mkScope(f, d, t) : f \in {{}, {"a.py"}}, d \in DirLists, t \in {{}, {"ui"}} }

\* two scopes of ScopeChoices that do not overlap
DisjointScopes == { mkScope({}, <<>>, {"ui"}), mkScope({"a.py"}, <<DirSrc>>, {}) }

\* the status, activity and active_files values the registry is given; an
\* optional argument is <<>> when it is not supplied and <<v>> when it is
StatusChoices == {"busy"}
ActivityChoices == {"editing"}
FileLists == {<<"a.py">>, <<"b.py", "a.py", "a.py">>}
Optional(S) == {<<>>} \cup { <<v>> : v \in S }

\* the seconds the registry's clock advances by in one step
ClockSteps == {300, 301}

\* no check_conflicts call made yet
NoConflicts == [instance_id |-> NULL, files |-> <<>>, ret |-> <<>>]

\* the two stores kept as JSON files: tasks.json and knowledge.json
Stores == {"tasks", "knowledge"}

\* the documents a save is given
Docs == {"d1", "d2"}

\* what a file can hold besides a document: nothing (no such file), text
\* that json.loads rejects (an empty or cut-off document), or bytes that
\* read_text cannot return (cut inside a multi-byte character, an I/O error)
Partial == {"unparsable", "unreadable"}

\* the files next to a store's primary file
NoFiles == [primary |-> "absent", bak |-> "absent", tmp |-> "absent", corrupt |-> "absent"]

\* no save in flight, none made yet
IdleSave == [pc |-> "idle", new |-> "absent", prior |-> "absent", outcome |-> "none"]

\* no load made yet
NoLoad == [ret |-> "none", raised |-> FALSE]

Priorities == {"critical", "high", "medium", "low"}
\* the priorities callers pass in the explored runs
PriorityChoices == {"medium"}

\* the session ids uuid4 hands to GET /mcp, and the request threads of the server
SessionIds == {"s1", "s2"}
MThreads == {"m1", "m2"}
\* how many requests are POSTed in the explored runs
MaxRpc == 3
\* the JSON-RPC methods the clients send, the tool names and what the tool does
Methods == {"initialize", "tools/list", "tools/call", "ping", "resources/list"}
ToolNames == {"howell_query", "no_such_tool"}
ToolOutcomes == {"value", "error", "raises"}
\* a stream that does not exist yet, a request thread at rest, no request made yet
NoStream == [pc |-> "none", queue |-> <<>>, out |-> <<>>]
IdleMessage == [pc |-> "idle", session_id |-> NULL, body |-> <<>>, response |-> <<>>, status |-> 0]
NoRpc == [posted |-> <<>>, order |-> <<>>, accepted |-> {}]

\* how many request objects a batch carries in the explored runs
MaxBatch == 2
\* no POST /mcp made yet
NoHttp == [body |-> [batch |-> FALSE, reqs |-> <<>>], status |-> 0, responses |-> <<>>]

\* the supervised workers followed, and what a worker's exception says
Workers == {"queue", "watcher"}
Errors == {"e1", "e2"}
\* how many times a worker stops in the explored runs
MaxStops == 3
\* _thread_health has no entry for the worker yet
NoHealth == [alive |-> FALSE, restarts |-> -1, last_error |-> <<>>]

\* the store mutexes: task_queue._lock, agent_db._lock, instance_registry._lock,
\* howell_bridge._io_lock; the threads that run handlers and worker rounds
StoreLocks == {"task_queue", "agent_db", "instance_registry", "howell_bridge"}
LThreads == {"t1", "t2", "t3"}
\* how many handlers and worker rounds are started in the explored runs
MaxRuns == 4

\* the shared secret and a value that is not it, as header and parameter values
API_KEY == <<"k">>
WrongKey == <<"x">>
\* no request made yet
NoRequest == [method |-> "GET", path |-> <<>>, x_api_key |-> <<>>, authorization |-> <<>>,
              key |-> <<>>, status |-> 0, handler |-> "none"]

\* the request threads that call approve, and how many plans are submitted
Approvers == {"r1", "r2"}
MaxPlans == 2
\* what a failed urlopen says, and what _execute says when the deadline passes
TransportErrors == {"URLError"}
TimeoutError == "Timeout waiting for ComfyUI (10 min)"
IdleApprove == [pc |-> "idle", plan_id |-> 0, plan |-> <<>>]
IdleProcessor == [pc |-> "sleep", plan_id |-> 0, plan |-> <<>>, read |-> ""]

\* the actions of howell_task_update; no howell_task_update made yet
UpdateActions == {"start", "note", "complete", "fail", "release"}
NoUpdate == [task_id |-> 0, action |-> "", holder |-> NULL, instance_id |-> NULL, ok |-> FALSE]

(***************************************************************************)
(* State                                                                   *)
(***************************************************************************)
VARIABLES
    tasks,      \* tasks.json: the list of task records, in creation order
    nextId,     \* the next fresh task id (ids are unique, never reused)
    lock,       \* task_queue._lock: the thread holding it, or NULL
    thr,        \* the claim_task call each client thread has in flight
    instances,  \* instance_registry._instances: id -> last_heartbeat_ts
    issued,     \* the instance ids uuid4 has handed out so far
    now,        \* the wall clock, in ticks
    dereg,      \* the position of the deregister request handler, per instance id
    agents,     \* agents table: the ids that exist
    handoffs,   \* handoffs table: the rows, in id order
    dblock,     \* agent_db._lock: the thread holding it, or NULL
    hthr,       \* the claim_handoff call each agent has in flight
    wins,       \* history: per handoff, how many claim_handoff calls succeeded
    rels,       \* history: per handoff, how many times the reaper released it
    cthr,       \* the create_agent call each client thread has in flight
    kg,         \* knowledge.json: entities (name -> observations) and relations
    kthr,       \* the knowledge-graph tool call each request thread has in flight
    kg0,        \* history: knowledge.json when the requests in flight began
    nreq,       \* history: how many tool calls have been made
    argA,       \* _scopes_overlap: the scope_a of the latest call
    argB,       \* _scopes_overlap: the scope_b of the latest call
    conflicts,  \* _scopes_overlap: the conflicts the latest call returned
    rthr,       \* the release_all_for_instance call in flight, per instance id
    disk,       \* per store, what its primary, .bak, .tmp and .corrupt files hold
    sv,         \* per store, the save in flight and how the latest one ended
    ld,         \* per store, what the latest load returned and whether it raised
    records,    \* instance_registry._instances with the fields of each record
    found,      \* the latest check_conflicts call: its arguments and its result
    cath,       \* the claim_all_handoffs call each agent has in flight
    pv,         \* the latest preview_context call: its workspace and its handoffs
    ended,      \* agents table: ended_at and end_summary of each row, by id
    sessions,   \* mcp_transport._sessions: the session ids that have an event queue
    sse,        \* per session id, its stream: position, event queue, message events written
    mthr,       \* the POST /mcp/message handler each request thread has in flight
    rpc,        \* history: where each request was posted, the order processed, the 202s
    http,       \* the latest POST /mcp: its body, the status and the response objects sent
    health,     \* howell_daemon._thread_health: alive, restarts and last_error, per worker
    wd,         \* per worker, where its _watchdog thread is; history: stops and delays so far
    held,       \* per store mutex, the thread that holds it, or NULL
    lthr,       \* per thread, the rest of the handler it runs; history: handlers started
    nruns,      \* history: how many handlers and worker rounds have been started
    lastreq,        \* the latest GET or POST: path, X-API-Key, Authorization, key, status, handler reached
    plans,      \* queue/comfyui/*.json: the plan each file holds, by plan id
    athr,       \* the approve call each request thread has in flight
    qp,         \* background_queue_processor: its position and the plan it has in hand
    posts,      \* history: the plans POSTed to the renderer, with the status they were read with
    inserted,   \* instance_registry._instances: the ids in the order register() inserted them
    tu          \* the latest howell_task_update: task, action, holder before it, id used, result

taskVars == <<tasks, nextId>>
raceVars == <<lock, thr>>
regVars == <<instances, issued, dereg>>
hoVars == <<agents, handoffs, dblock, hthr, wins, rels>>
agVars == <<cthr>>
kgVars == <<kg, kthr, kg0, nreq>>
scVars == <<argA, argB, conflicts>>
relVars == <<rthr>>
fsVars == <<disk, sv, ld>>
recVars == <<records, found>>
bootVars == <<cath, pv>>
endVars == <<ended>>
svcVars == <<sessions, sse, mthr, rpc, http, health, wd, held, lthr, nruns, lastreq, plans, athr, qp, posts, inserted, tu>>
addVars == <<fsVars, recVars, bootVars, endVars, svcVars>>
extVars == <<agVars, kgVars, scVars, relVars, addVars>>
vars == <<tasks, nextId, lock, thr, instances, issued, now, dereg, agents, handoffs, dblock, hthr, wins, rels, cthr, kg, kthr, kg0, nreq, argA, argB, conflicts, rthr, disk, sv, ld, records, found, cath, pv, ended, sessions, sse, mthr, rpc, http, health, wd, held, lthr, nruns, lastreq, plans, athr, qp, posts, inserted, tu>>

(***************************************************************************)
(* Scope overlap (task_queue._scopes_overlap)                              *)
(***************************************************************************)
\* str.replace("\\", "/")
replace_backslash(d) == [i \in 1..Len(d) |-> IF d[i] = "\\" THEN "/" ELSE d[i]]

\* str.rstrip("/")
RECURSIVE rstrip_slash(_)
rstrip_slash(d) ==
    IF d # <<>> /\ d[Len(d)] = "/"
    THEN rstrip_slash(SubSeq(d, 1, Len(d) - 1))
    ELSE d

\* the normalisation without the trailing separator
dir_norm_no_separator(d) == rstrip_slash(replace_backslash(d))

\* da.replace("\\", "/").rstrip("/") + "/"
dir_norm(d) == rstrip_slash(replace_backslash(d)) \o <<"/">>

\* str.startswith
startswith(a, b) == Len(b) <= Len(a) /\ SubSeq(a, 1, Len(b)) = b

\* the directory test one way only: a directory of A under a directory of B
scopes_overlap_one_way(scope_a, scope_b) ==
    { <<"file", f>> : f \in scope_a.files \cap scope_b.files }
    \cup
    { <<"dir", scope_a.directories[i], scope_b.directories[j]>> :
        <<i, j>> \in { p \in (DOMAIN scope_a.directories) \X (DOMAIN scope_b.directories) :
            startswith(dir_norm(scope_a.directories[p[1]]),
                       dir_norm(scope_b.directories[p[2]])) } }
    \cup
    { <<"tag", t>> : t \in scope_a.tags \cap scope_b.tags }

\* the conflicts _scopes_overlap returns, as a set; empty means no overlap
scopes_overlap(scope_a, scope_b) ==
    { <<"file", f>> : f \in scope_a.files \cap scope_b.files }
    \cup
    { <<"dir", scope_a.directories[i], scope_b.directories[j]>> :
        <<i, j>> \in { p \in (DOMAIN scope_a.directories) \X (DOMAIN scope_b.directories) :
            LET da_norm == dir_norm(scope_a.directories[p[1]])
                db_norm == dir_norm(scope_b.directories[p[2]])
            IN startswith(da_norm, db_norm) \/ startswith(db_norm, da_norm) } }
    \cup
    { <<"tag", t>> : t \in scope_a.tags \cap scope_b.tags }



(***************************************************************************)
(* Helpers over the task list                                              *)
(***************************************************************************)
Active == {"claimed", "in-progress"}

Idx(ts, task_id) == { i \in DOMAIN ts : ts[i].id = task_id }

\* the first record with this id (the loops return at the first match)
FirstIdx(ts, task_id) == CHOOSE i \in Idx(ts, task_id) : \A j \in Idx(ts, task_id) : i <= j

Ids(ts) == { ts[i].id : i \in DOMAIN ts }

Task(ts, task_id) == ts[FirstIdx(ts, task_id)]

RECURSIVE SeqFilterOut(_, _)
\* the list without the positions in drop, order kept
SeqFilterOut(ts, drop) ==
    IF ts = <<>> THEN <<>>
    ELSE LET n == Len(ts)
             rest == SeqFilterOut(SubSeq(ts, 1, n - 1), drop)
         IN IF n \in drop THEN rest ELSE Append(rest, ts[n])

RECURSIVE SumNotes(_)
SumNotes(ts) == IF ts = <<>> THEN 0 ELSE Len(ts[1].notes) + SumNotes(Tail(ts))

\* room left in the explored number of notes
NoteRoom == SumNotes(tasks) < MaxNotes

\* what a call leaves in the store and what it returns
Out(ts, ret) == [tasks |-> ts, ret |-> ret]

(***************************************************************************)
(* Task store functions (task_queue.py).  Each gives the list it saves and *)
(* the value it returns: a returned task record is written "task" (it is   *)
(* the stored record of the task_id argument), None is NULL.  Timestamps   *)
(* are NULL or "ts".                                                       *)
(***************************************************************************)
new_task(task_id, scope, priority, dependencies) ==
    [ id |-> task_id, scope |-> scope, priority |-> priority,
      status |-> "pending", dependencies |-> dependencies,
      claimed_by |-> NULL, claimed_at |-> NULL, started_at |-> NULL,
      completed_at |-> NULL, notes |-> <<>> ]

create_task(ts, task_id, scope, priority, dependencies) ==
    Out(Append(ts, new_task(task_id, scope, priority, dependencies)), "task")

\* claim_task without the scope check (lines 245-250 left out)
claim_task_no_scope_check(ts, task_id, instance_id) ==
    IF Idx(ts, task_id) = {} THEN Out(ts, NULL)
    ELSE LET i == FirstIdx(ts, task_id)
         IN IF ts[i].status # "pending" THEN Out(ts, NULL)
            ELSE Out([ts EXCEPT ![i].status = "claimed",
                                ![i].claimed_by = instance_id,
                                ![i].claimed_at = "ts"], "task")

claim_task(ts, task_id, instance_id) ==
    IF Idx(ts, task_id) = {} THEN Out(ts, NULL)
    ELSE LET i == FirstIdx(ts, task_id)
             in_progress == { j \in DOMAIN ts : ts[j].status \in Active /\ ts[j].id # task_id }
         IN IF ts[i].status # "pending" THEN Out(ts, NULL)
            ELSE IF \E j \in in_progress : scopes_overlap(ts[i].scope, ts[j].scope) # {}
            THEN Out(ts, NULL)
            ELSE Out([ts EXCEPT ![i].status = "claimed",
                                ![i].claimed_by = instance_id,
                                ![i].claimed_at = "ts"], "task")

start_task(ts, task_id, instance_id) ==
    IF Idx(ts, task_id) = {} THEN Out(ts, NULL)
    ELSE LET i == FirstIdx(ts, task_id)
         IN IF ts[i].status # "claimed" \/ ts[i].claimed_by # instance_id
            THEN Out(ts, NULL)
            ELSE Out([ts EXCEPT ![i].status = "in-progress",
                                ![i].started_at = "ts"], "task")

add_task_note(ts, task_id, instance_id) ==
    IF Idx(ts, task_id) = {} THEN Out(ts, NULL)
    ELSE LET i == FirstIdx(ts, task_id)
         IN IF ts[i].claimed_by # instance_id
            THEN Out(ts, NULL)
            ELSE Out([ts EXCEPT ![i].notes = Append(@, "note")], "task")

complete_task(ts, task_id, instance_id) ==
    IF Idx(ts, task_id) = {} THEN Out(ts, NULL)
    ELSE LET i == FirstIdx(ts, task_id)
         IN IF ts[i].claimed_by # instance_id
            THEN Out(ts, NULL)
            ELSE Out([ts EXCEPT ![i].status = "completed",
                                ![i].completed_at = "ts"], "task")

\* fail_task that checks the status where it should check the claimer
fail_task_any_caller(ts, task_id, instance_id) ==
    IF Idx(ts, task_id) = {} THEN Out(ts, NULL)
    ELSE LET i == FirstIdx(ts, task_id)
         IN IF ts[i].status \notin Active
            THEN Out(ts, NULL)
            ELSE Out([ts EXCEPT ![i].notes = Append(@, "FAILED"),
                                ![i].status = "pending",
                                ![i].claimed_by = NULL,
                                ![i].claimed_at = NULL,
                                ![i].started_at = NULL], "task")

fail_task(ts, task_id, instance_id) ==
    IF Idx(ts, task_id) = {} THEN Out(ts, NULL)
    ELSE LET i == FirstIdx(ts, task_id)
         IN IF ts[i].claimed_by # instance_id
            THEN Out(ts, NULL)
            ELSE Out([ts EXCEPT ![i].notes = Append(@, "FAILED"),
                                ![i].status = "pending",
                                ![i].claimed_by = NULL,
                                ![i].claimed_at = NULL,
                                ![i].started_at = NULL], "task")

\* release_task that forgets to clear started_at
release_task_keeps_started_at(ts, task_id, instance_id) ==
    IF Idx(ts, task_id) = {} THEN Out(ts, NULL)
    ELSE LET i == FirstIdx(ts, task_id)
         IN IF ts[i].claimed_by # instance_id THEN Out(ts, NULL)
            ELSE IF ts[i].status \notin Active THEN Out(ts, NULL)
            ELSE Out([ts EXCEPT ![i].notes = Append(@, "Released"),
                                ![i].status = "pending",
                                ![i].claimed_by = NULL,
                                ![i].claimed_at = NULL], "task")

release_task(ts, task_id, instance_id) ==
    IF Idx(ts, task_id) = {} THEN Out(ts, NULL)
    ELSE LET i == FirstIdx(ts, task_id)
         IN IF ts[i].claimed_by # instance_id THEN Out(ts, NULL)
            ELSE IF ts[i].status \notin Active THEN Out(ts, NULL)
            ELSE Out([ts EXCEPT ![i].notes = Append(@, "Released"),
                                ![i].status = "pending",
                                ![i].claimed_by = NULL,
                                ![i].claimed_at = NULL,
                                ![i].started_at = NULL], "task")

\* the keys of **kwargs that update_task writes
UpdatableKeys == {"priority", "scope", "dependencies"}

\* kwargs: a function from key to value
update_task(ts, task_id, kwargs) ==
    IF Idx(ts, task_id) = {} THEN Out(ts, NULL)
    ELSE LET i == FirstIdx(ts, task_id)
             upd(t) == [k \in DOMAIN t |->
                           IF k \in DOMAIN kwargs /\ k \in UpdatableKeys
                           THEN kwargs[k] ELSE t[k]]
         IN IF ts[i].status # "pending" THEN Out(ts, NULL)
            ELSE Out([ts EXCEPT ![i] = upd(@)], "task")

Deletable == {"pending", "completed", "failed"}

\* the filter without the status test: any task with the id is dropped
delete_task_any_status(ts, task_id) ==
    LET drop == { i \in DOMAIN ts : ts[i].id = task_id }
        kept == SeqFilterOut(ts, drop)
    IN IF Len(kept) < Len(ts) THEN Out(kept, TRUE) ELSE Out(ts, FALSE)

delete_task(ts, task_id) ==
    LET drop == { i \in DOMAIN ts : ts[i].id = task_id /\ ts[i].status \in Deletable }
        kept == SeqFilterOut(ts, drop)
    IN IF Len(kept) < Len(ts) THEN Out(kept, TRUE) ELSE Out(ts, FALSE)

\* old: the positions whose completed_at lies before the cutoff
archive_completed(ts, old) ==
    LET drop == { i \in DOMAIN ts : /\ ts[i].status \in {"completed", "failed"}
                                    /\ ts[i].completed_at # NULL
                                    /\ i \in old }
    IN Out(SeqFilterOut(ts, drop), Cardinality(drop))

\* release_all_for_instance that overlooks the tasks already started
release_all_claimed_only(ts, instance_id) ==
    LET hit == { i \in DOMAIN ts : ts[i].claimed_by = instance_id /\ ts[i].status = "claimed" }
    IN Out([i \in DOMAIN ts |->
              IF i \in hit
              THEN [ts[i] EXCEPT !.notes = Append(@, "Auto-released"),
                                 !.status = "pending",
                                 !.claimed_by = NULL,
                                 !.claimed_at = NULL,
                                 !.started_at = NULL]
              ELSE ts[i]],
           Cardinality(hit))

\* the loop left after the first released task
release_all_first_only(ts, instance_id) ==
    LET all == { i \in DOMAIN ts : ts[i].claimed_by = instance_id /\ ts[i].status \in Active }
        hit == { i \in all : \A j \in all : i <= j }
    IN Out([i \in DOMAIN ts |->
              IF i \in hit
              THEN [ts[i] EXCEPT !.notes = Append(@, "Auto-released"),
                                 !.status = "pending",
                                 !.claimed_by = NULL,
                                 !.claimed_at = NULL,
                                 !.started_at = NULL]
              ELSE ts[i]],
           Cardinality(hit))

release_all_for_instance(ts, instance_id) ==
    LET hit == { i \in DOMAIN ts : ts[i].claimed_by = instance_id /\ ts[i].status \in Active }
    IN Out([i \in DOMAIN ts |->
              IF i \in hit
              THEN [ts[i] EXCEPT !.notes = Append(@, "Auto-released"),
                                 !.status = "pending",
                                 !.claimed_by = NULL,
                                 !.claimed_at = NULL,
                                 !.started_at = NULL]
              ELSE ts[i]],
           Cardinality(hit))

(***************************************************************************)
(* Availability (task_queue.get_available_tasks)                           *)
(***************************************************************************)
completed_ids(ts) == { ts[i].id : i \in { j \in DOMAIN ts : ts[j].status = "completed" } }

in_progress_scopes(ts) == { ts[i].scope : i \in { j \in DOMAIN ts : ts[j].status \in Active } }

\* the filter without the dependency check (lines 204-207 left out)
passes_filter_no_dependencies(ts, i) ==
    /\ ts[i].status = "pending"
    /\ ~ \E ip_scope \in in_progress_scopes(ts) : scopes_overlap(ts[i].scope, ip_scope) # {}

\* the filter of the loop at lines 200-218, for position i
passes_filter(ts, i) ==
    /\ ts[i].status = "pending"
    /\ ~ (ts[i].dependencies # {} /\ ~ (ts[i].dependencies \subseteq completed_ids(ts)))
    /\ ~ \E ip_scope \in in_progress_scopes(ts) : scopes_overlap(ts[i].scope, ip_scope) # {}

\* priority_order.get(t["priority"], 2)
priority_order(p) ==
    CASE p = "critical" -> 0 [] p = "high" -> 1 [] p = "medium" -> 2 [] p = "low" -> 3
      [] OTHER -> 2

RECURSIVE SelectRank(_, _, _)
\* the records of ts that pass the filter of all and have rank r, in list order
SelectRank(all, ts, r) ==
    IF ts = <<>> THEN <<>>
    ELSE LET n == Len(ts)
             rest == SelectRank(all, SubSeq(ts, 1, n - 1), r)
         IN IF passes_filter(all, n) /\ priority_order(ts[n].priority) = r
            THEN Append(rest, ts[n]) ELSE rest

\* the available list returned without the sort of lines 221-222
get_available_unsorted(ts) ==
    SeqFilterOut(ts, { ts[i].id : i \in { j \in DOMAIN ts : ~ passes_filter(ts, j) } })

\* list.sort is stable: rank by rank, each in list order
get_available_tasks(ts) ==
    SelectRank(ts, ts, 0) \o SelectRank(ts, ts, 1) \o SelectRank(ts, ts, 2) \o SelectRank(ts, ts, 3)

(***************************************************************************)
(* The task store under arbitrary calls.  Every function above runs        *)
(* entirely under task_queue._lock, so a call is one step.                 *)
(***************************************************************************)
TaskIds == 1..MaxTasks

\* what a task-store call leaves alone
NotTheStore == <<nextId, raceVars, regVars, now, hoVars, extVars>>

call_create_task(scope, priority, dependencies) ==
    /\ nextId <= MaxTasks
    /\ dependencies \subseteq 1..(nextId - 1)
    /\ tasks' = create_task(tasks, nextId, scope, priority, dependencies).tasks
    /\ nextId' = nextId + 1
    /\ UNCHANGED <<raceVars, regVars, now, hoVars, extVars>>

call_claim_task(task_id, instance_id) ==
    /\ tasks' = claim_task(tasks, task_id, instance_id).tasks
    /\ UNCHANGED NotTheStore

call_start_task(task_id, instance_id) ==
    /\ tasks' = start_task(tasks, task_id, instance_id).tasks
    /\ UNCHANGED NotTheStore

call_add_task_note(task_id, instance_id) ==
    /\ NoteRoom
    /\ tasks' = add_task_note(tasks, task_id, instance_id).tasks
    /\ UNCHANGED NotTheStore

call_complete_task(task_id, instance_id) ==
    /\ tasks' = complete_task(tasks, task_id, instance_id).tasks
    /\ UNCHANGED NotTheStore

call_fail_task(task_id, instance_id) ==
    /\ NoteRoom
    /\ tasks' = fail_task(tasks, task_id, instance_id).tasks
    /\ UNCHANGED NotTheStore

call_release_task(task_id, instance_id) ==
    /\ NoteRoom
    /\ tasks' = release_task(tasks, task_id, instance_id).tasks
    /\ UNCHANGED NotTheStore

call_update_task(task_id, kwargs) ==
    /\ tasks' = update_task(tasks, task_id, kwargs).tasks
    /\ UNCHANGED NotTheStore

call_delete_task(task_id) ==
    /\ tasks' = delete_task(tasks, task_id).tasks
    /\ UNCHANGED NotTheStore

call_archive_completed(old) ==
    /\ tasks' = archive_completed(tasks, old).tasks
    /\ UNCHANGED NotTheStore

call_release_all_for_instance(instance_id) ==
    /\ NoteRoom
    /\ tasks' = release_all_for_instance(tasks, instance_id).tasks
    /\ UNCHANGED NotTheStore

\* the keyword arguments callers pass to update_task
Kwargs(task_id) ==
    [{"scope"} -> ScopeChoices]
    \cup [{"dependencies"} -> SUBSET (TaskIds \ {task_id})]
    \cup [{"priority"} -> PriorityChoices]

\* no release_all_for_instance call in flight
IdleRelease == [pc |-> "idle", local |-> <<>>, ret |-> 0]

\* a client thread that has no create_agent call in flight
IdleCreate == [pc |-> "idle", agent_id |-> NULL, ret |-> NULL]

\* an agent that has no claim_handoff call in flight
IdleClaim == [pc |-> "idle", handoff_id |-> 0, now |-> 0, rowcount |-> 0, ret |-> NULL,
              unclaimed |-> FALSE, known |-> FALSE, rel0 |-> 0]

\* a client thread that has no claim_task call in flight
IdleThread == [pc |-> "idle", task_id |-> 0, local |-> <<>>, ret |-> NULL, avail |-> FALSE]

Init ==
    /\ tasks = <<>>
    /\ nextId = 1
    /\ lock = NULL
    /\ thr = [i \in Instances |-> IdleThread]
    /\ instances = <<>>
    /\ issued = {}
    /\ now = 0
    /\ dereg = [i \in Instances |-> "idle"]
    /\ agents = {}
    /\ handoffs = <<>>
    /\ dblock = NULL
    /\ hthr = [a \in AgentIds |-> IdleClaim]
    /\ wins = <<>>
    /\ rels = <<>>
    /\ cthr = [c \in Creators |-> IdleCreate]
    /\ kg = EmptyGraph
    /\ kthr = [k \in KThreads |-> IdleTool]
    /\ kg0 = EmptyGraph
    /\ nreq = 0
    /\ argA = mkScope({}, <<>>, {})
    /\ argB = mkScope({}, <<>>, {})
    /\ conflicts = {}
    /\ rthr = [i \in Instances |-> IdleRelease]
    /\ disk = [s \in Stores |-> NoFiles]
    /\ sv = [s \in Stores |-> IdleSave]
    /\ ld = [s \in Stores |-> NoLoad]
    /\ records = <<>>
    /\ found = NoConflicts
    /\ cath = [a \in AgentIds |-> IdleClaimAll]
    /\ pv = NoPreview
    /\ ended = [a \in AllAgentIds |-> NotEnded]
    /\ sessions = {}
    /\ sse = [s \in SessionIds |-> NoStream]
    /\ mthr = [m \in MThreads |-> IdleMessage]
    /\ rpc = NoRpc
    /\ http = NoHttp
    /\ health = [w \in Workers |-> NoHealth]
    /\ wd = [w \in Workers |-> [pc |-> "entry", stopped |-> 0, raised |-> 0, waited |-> 0]]
    /\ held = [l \in StoreLocks |-> NULL]
    /\ lthr = [t \in LThreads |-> <<>>]
    /\ nruns = 0
    /\ lastreq = NoRequest
    /\ plans = <<>>
    /\ athr = [a \in Approvers |-> IdleApprove]
    /\ qp = IdleProcessor
    /\ posts = {}
    /\ inserted = <<>>
    /\ tu = NoUpdate

Next ==
    \/ \E s \in ScopeChoices, p \in PriorityChoices, d \in SUBSET TaskIds :
          call_create_task(s, p, d)
    \/ \E t \in TaskIds, i \in Instances : call_claim_task(t, i)
    \/ \E t \in TaskIds, i \in Instances : call_start_task(t, i)
    \/ \E t \in TaskIds, i \in Instances : call_add_task_note(t, i)
    \/ \E t \in TaskIds, i \in Instances : call_complete_task(t, i)
    \/ \E t \in TaskIds, i \in Instances : call_fail_task(t, i)
    \/ \E t \in TaskIds, i \in Instances : call_release_task(t, i)
    \/ \E t \in TaskIds : \E k \in Kwargs(t) : call_update_task(t, k)
    \/ \E t \in TaskIds : call_delete_task(t)
    \/ \E old \in SUBSET TaskIds : call_archive_completed(old)
    \/ \E i \in Instances : call_release_all_for_instance(i)

Spec == Init /\ [][Next]_vars

(***************************************************************************)
(* claim_task called from several request threads (the daemon serves every *)
(* request on its own thread).  A call is three steps: enter `with _lock`  *)
(* and load the file; check and save; leave the block and return.          *)
(***************************************************************************)
\* a lock that never blocks
lock_never_blocks == TRUE

\* threading.Lock: acquire blocks until no thread holds the lock
lock_is_free == lock = NULL

NotTheRace == <<nextId, regVars, now, hoVars, extVars>>

\* the request arrives; avail records whether a claim would succeed now
race_call(i, task_id) ==
    /\ thr[i].pc = "idle"
    /\ thr' = [thr EXCEPT ![i] = [IdleThread EXCEPT !.pc = "wait", !.task_id = task_id,
                                     !.avail = (claim_task(tasks, task_id, i).ret = "task")]]
    /\ UNCHANGED <<tasks, lock, NotTheRace>>

\* with _lock: tasks = _load_tasks()
race_lock_and_load(i) ==
    /\ thr[i].pc = "wait"
    /\ lock_is_free
    /\ lock' = i
    /\ thr' = [thr EXCEPT ![i].pc = "loaded", ![i].local = tasks]
    /\ UNCHANGED <<tasks, NotTheRace>>

\* the checks, and on success the write of the loaded list
race_check_and_save(i) ==
    /\ thr[i].pc = "loaded"
    /\ LET r == claim_task(thr[i].local, thr[i].task_id, i)
       IN /\ tasks' = IF r.ret # NULL THEN r.tasks ELSE tasks
          /\ thr' = [thr EXCEPT ![i].pc = "saved", ![i].local = <<>>, ![i].ret = r.ret]
    /\ UNCHANGED <<lock, NotTheRace>>

\* return: the with block releases the lock
race_return(i) ==
    /\ thr[i].pc = "saved"
    /\ lock' = IF lock = i THEN NULL ELSE lock
    /\ thr' = [thr EXCEPT ![i].pc = "done"]
    /\ UNCHANGED <<tasks, NotTheRace>>

\* create_task takes the same lock
race_create_task(scope, priority, dependencies) ==
    /\ lock_is_free
    /\ call_create_task(scope, priority, dependencies)

NextRace ==
    \/ \E s \in ScopeChoices, p \in PriorityChoices, d \in SUBSET TaskIds :
          race_create_task(s, p, d)
    \/ \E i \in Instances, t \in TaskIds : race_call(i, t)
    \/ \E i \in Instances : race_lock_and_load(i)
    \/ \E i \in Instances : race_check_and_save(i)
    \/ \E i \in Instances : race_return(i)

SpecRace == Init /\ [][NextRace]_vars

(***************************************************************************)
(* release_all_for_instance running beside claim_task calls.  The other    *)
(* task-store functions run whole while the lock is free.                  *)
(***************************************************************************)
NotTheRelease == <<nextId, thr, regVars, now, hoVars, agVars, kgVars, scVars, addVars>>

\* the board may hold one note more than MaxNotes once a release has run
ReleaseRoom == SumNotes(tasks) <= MaxNotes

\* with _lock: tasks = _load_tasks()
rel_lock_and_load(instance_id) ==
    /\ rthr[instance_id].pc = "idle"
    /\ lock_is_free
    /\ ReleaseRoom
    /\ lock' = "release"
    /\ rthr' = [rthr EXCEPT ![instance_id] = [pc |-> "loaded", local |-> tasks, ret |-> 0]]
    /\ UNCHANGED <<tasks, NotTheRelease>>

\* the loop over the loaded list, and _save_tasks if anything was released
rel_save(instance_id) ==
    /\ rthr[instance_id].pc = "loaded"
    /\ LET r == release_all_for_instance(rthr[instance_id].local, instance_id)
       IN /\ tasks' = IF r.ret > 0 THEN r.tasks ELSE tasks
          /\ rthr' = [rthr EXCEPT ![instance_id] = [pc |-> "saved", local |-> <<>>, ret |-> r.ret]]
    /\ UNCHANGED <<lock, NotTheRelease>>

\* return released: the with block releases the lock
rel_return(instance_id) ==
    /\ rthr[instance_id].pc = "saved"
    /\ lock' = IF lock = "release" THEN NULL ELSE lock
    /\ rthr' = [rthr EXCEPT ![instance_id] = IdleRelease]
    /\ UNCHANGED <<tasks, NotTheRelease>>

race_claim_task(task_id, instance_id) ==
    /\ lock_is_free
    /\ call_claim_task(task_id, instance_id)

race_start_task(task_id, instance_id) ==
    /\ lock_is_free
    /\ call_start_task(task_id, instance_id)

race_add_task_note(task_id, instance_id) ==
    /\ lock_is_free
    /\ call_add_task_note(task_id, instance_id)

NextRelease ==
    \/ \E s \in DisjointScopes, p \in PriorityChoices : race_create_task(s, p, {})
    \/ \E t \in TaskIds, i \in Instances : race_claim_task(t, i)
    \/ \E t \in TaskIds, i \in Instances : race_start_task(t, i)
    \/ \E t \in TaskIds, i \in Instances : race_add_task_note(t, i)
    \/ \E i \in Instances, t \in TaskIds : race_call(i, t)
    \/ \E i \in Instances : race_lock_and_load(i)
    \/ \E i \in Instances : race_check_and_save(i)
    \/ \E i \in Instances : race_return(i)
    \/ \E i \in Instances : rel_lock_and_load(i)
    \/ \E i \in Instances : rel_save(i)
    \/ \E i \in Instances : rel_return(i)

SpecRelease == Init /\ [][NextRelease]_vars

(***************************************************************************)
(* The instance registry (instance_registry.py) and the deregister request *)
(* handler (howell_daemon.py).  The registry is a dict from instance id to *)
(* record; of the record the model keeps last_heartbeat_ts.                *)
(***************************************************************************)
\* the dict without key k
DictDel(d, k) == [x \in (DOMAIN d) \ {k} |-> d[x]]

\* the dict with d[k] = v
DictPut(d, k, v) == [x \in (DOMAIN d) \cup {k} |-> IF x = k THEN v ELSE d[x]]

\* _purge_expired at time t
purge_expired(insts, t) ==
    LET expired == { iid \in DOMAIN insts : t - insts[iid] > EXPIRY_SECONDS }
    IN [x \in (DOMAIN insts) \ expired |-> insts[x]]

register(insts, t, instance_id) == DictPut(purge_expired(insts, t), instance_id, t)

heartbeat(insts, t, instance_id) ==
    LET live == purge_expired(insts, t)
    IN IF instance_id \notin DOMAIN live THEN live ELSE DictPut(live, instance_id, t)

deregister(insts, instance_id) ==
    IF instance_id \in DOMAIN insts THEN DictDel(insts, instance_id) ELSE insts

instance_count(insts, t) == purge_expired(insts, t)

NotTheRegistry == <<taskVars, raceVars, issued, dereg, now, hoVars, extVars>>

time_passes ==
    /\ now < MaxClock * TickSeconds
    /\ now' = now + TickSeconds
    /\ UNCHANGED <<taskVars, raceVars, regVars, hoVars, extVars>>

\* POST /instance/register; uuid4 gives an id it has not given before
handle_instance_register(instance_id) ==
    /\ instance_id \notin issued
    /\ issued' = issued \cup {instance_id}
    /\ instances' = register(instances, now, instance_id)
    /\ UNCHANGED <<taskVars, raceVars, dereg, now, hoVars, extVars>>

\* POST /instance/heartbeat
handle_instance_heartbeat(instance_id) ==
    /\ instances' = heartbeat(instances, now, instance_id)
    /\ UNCHANGED NotTheRegistry

\* POST /instance/deregister arrives with id instance_id
dereg_request(instance_id) ==
    /\ dereg[instance_id] = "idle"
    /\ dereg' = [dereg EXCEPT ![instance_id] = "release"]
    /\ UNCHANGED <<taskVars, raceVars, instances, issued, now, hoVars, extVars>>

\* released_tasks = release_all_for_instance(instance_id)
dereg_release(instance_id) ==
    /\ dereg[instance_id] = "release"
    /\ tasks' = release_all_for_instance(tasks, instance_id).tasks
    /\ dereg' = [dereg EXCEPT ![instance_id] = "deregister"]
    /\ UNCHANGED <<nextId, raceVars, instances, issued, now, hoVars, extVars>>

\* removed = instance_deregister(instance_id)
dereg_deregister(instance_id) ==
    /\ dereg[instance_id] = "deregister"
    /\ instances' = deregister(instances, instance_id)
    /\ dereg' = [dereg EXCEPT ![instance_id] = "count"]
    /\ UNCHANGED <<taskVars, raceVars, issued, now, hoVars, extVars>>

\* remaining = instance_count(); the response is sent
dereg_respond(instance_id) ==
    /\ dereg[instance_id] = "count"
    /\ instances' = instance_count(instances, now)
    /\ dereg' = [dereg EXCEPT ![instance_id] = "idle"]
    /\ UNCHANGED <<taskVars, raceVars, issued, now, hoVars, extVars>>

dereg_step(instance_id) ==
    \/ dereg_release(instance_id)
    \/ dereg_deregister(instance_id)
    \/ dereg_respond(instance_id)

\* a registered client works on tasks under its own instance id
client_claim_task(task_id, instance_id) ==
    /\ instance_id \in DOMAIN instances
    /\ NoteRoom
    /\ call_claim_task(task_id, instance_id)

client_start_task(task_id, instance_id) ==
    /\ instance_id \in DOMAIN instances
    /\ call_start_task(task_id, instance_id)

client_complete_task(task_id, instance_id) ==
    /\ instance_id \in DOMAIN instances
    /\ call_complete_task(task_id, instance_id)

NextDereg ==
    \/ \E s \in DisjointScopes, p \in PriorityChoices : call_create_task(s, p, {})
    \/ \E t \in TaskIds, i \in Instances : client_claim_task(t, i)
    \/ \E t \in TaskIds, i \in Instances : client_start_task(t, i)
    \/ \E t \in TaskIds, i \in Instances : client_complete_task(t, i)
    \/ time_passes
    \/ \E i \in Instances : handle_instance_register(i)
    \/ \E i \in Instances : handle_instance_heartbeat(i)
    \/ \E i \in Instances : dereg_request(i)
    \/ \E i \in Instances : dereg_release(i)
    \/ \E i \in Instances : dereg_deregister(i)
    \/ \E i \in Instances : dereg_respond(i)

\* a request handler that has started runs to its end
SpecDereg ==
    Init /\ [][NextDereg]_vars /\ \A i \in Instances : WF_vars(dereg_step(i))

(***************************************************************************)
(* The instance records (instance_registry.py), with last_heartbeat_ts,    *)
(* heartbeat_count, status, activity and active_files of each record.  A   *)
(* call gives the dict it leaves and what it returns: None is <<>>, a      *)
(* record is <<rec>>.                                                      *)
(***************************************************************************)
ROut(insts, ret) == [insts |-> insts, ret |-> ret]

\* _purge_expired at time t, over the records
purge_expired_records(insts, t) ==
    LET expired == { iid \in DOMAIN insts :
                        t - insts[iid].last_heartbeat_ts > EXPIRY_SECONDS }
    IN [x \in (DOMAIN insts) \ expired |-> insts[x]]

new_record(t, status) ==
    [ status |-> status, activity |-> "", active_files |-> <<>>,
      last_heartbeat_ts |-> t, heartbeat_count |-> 0 ]

register_record(insts, t, instance_id, status) ==
    ROut(DictPut(purge_expired_records(insts, t), instance_id, new_record(t, status)),
         <<new_record(t, status)>>)

heartbeat_record(insts, t, instance_id, status) ==
    LET live == purge_expired_records(insts, t)
    IN IF instance_id \notin DOMAIN live THEN ROut(live, <<>>)
       ELSE LET rec == [live[instance_id] EXCEPT
                           !.last_heartbeat_ts = t,
                           !.heartbeat_count = @ + 1,
                           !.status = IF status # <<>> THEN status[1] ELSE @]
            IN ROut(DictPut(live, instance_id, rec), <<rec>>)

\* update_status that counts as a heartbeat
update_status_counts_heartbeat(insts, instance_id, status, activity, active_files) ==
    IF instance_id \notin DOMAIN insts THEN ROut(insts, <<>>)
    ELSE LET rec == [insts[instance_id] EXCEPT
                        !.heartbeat_count = @ + 1,
                        !.status = IF status # <<>> THEN status[1] ELSE @,
                        !.activity = IF activity # <<>> THEN activity[1] ELSE @,
                        !.active_files = IF active_files # <<>> THEN active_files[1] ELSE @]
         IN ROut(DictPut(insts, instance_id, rec), <<rec>>)

\* there is no _purge_expired() in update_status
update_status(insts, instance_id, status, activity, active_files) ==
    IF instance_id \notin DOMAIN insts THEN ROut(insts, <<>>)
    ELSE LET rec == [insts[instance_id] EXCEPT
                        !.status = IF status # <<>> THEN status[1] ELSE @,
                        !.activity = IF activity # <<>> THEN activity[1] ELSE @,
                        !.active_files = IF active_files # <<>> THEN active_files[1] ELSE @]
         IN ROut(DictPut(insts, instance_id, rec), <<rec>>)

\* the list a loop over pairs appends to, as a bag: how often each record
\* is in it
ListOf(pairs) == [c \in pairs |-> 1]

SetOf(q) == { q[n] : n \in DOMAIN q }

\* check_conflicts that skips the purge
check_conflicts_no_purge(insts, t, instance_id, files) ==
    LET live == insts
        pairs == { [file |-> f, instance_id |-> iid, activity |-> live[iid].activity] :
                      <<f, iid>> \in { p \in SetOf(files) \X DOMAIN live :
                          /\ p[2] # instance_id
                          /\ p[1] \in SetOf(live[p[2]].active_files) } }
    IN ROut(live, ListOf(pairs))

check_conflicts(insts, t, instance_id, files) ==
    LET live == purge_expired_records(insts, t)
        pairs == { [file |-> f, instance_id |-> iid, activity |-> live[iid].activity] :
                      <<f, iid>> \in { p \in SetOf(files) \X DOMAIN live :
                          /\ p[2] # instance_id
                          /\ p[1] \in SetOf(live[p[2]].active_files) } }
    IN ROut(live, ListOf(pairs))

\* there is no _purge_expired() in deregister
deregister_record(insts, instance_id) ==
    IF instance_id \in DOMAIN insts
    THEN ROut(DictDel(insts, instance_id), TRUE)
    ELSE ROut(insts, FALSE)

\* the records list_instances returns, by id
list_instances(insts, t) ==
    ROut(purge_expired_records(insts, t), purge_expired_records(insts, t))

get_instance(insts, t, instance_id) ==
    LET live == purge_expired_records(insts, t)
    IN ROut(live, IF instance_id \in DOMAIN live THEN <<live[instance_id]>> ELSE <<>>)

instance_count_records(insts, t) ==
    ROut(purge_expired_records(insts, t), Cardinality(DOMAIN purge_expired_records(insts, t)))

NotTheRecords == <<taskVars, raceVars, instances, dereg, hoVars, agVars, kgVars, scVars, relVars, fsVars, bootVars, endVars, svcVars>>

\* the clock advances
seconds_pass(n) ==
    /\ now + n <= MaxClock * TickSeconds
    /\ now' = now + n
    /\ UNCHANGED <<records, found, issued, NotTheRecords>>

\* register(); uuid4 gives an id it has not given before
call_register(instance_id) ==
    /\ instance_id \notin issued
    /\ issued' = issued \cup {instance_id}
    /\ records' = register_record(records, now, instance_id, "bootstrapping").insts
    /\ UNCHANGED <<found, now, NotTheRecords>>

call_heartbeat(instance_id, status) ==
    /\ \A iid \in DOMAIN records : records[iid].heartbeat_count < MaxBeats
    /\ records' = heartbeat_record(records, now, instance_id, status).insts
    /\ UNCHANGED <<found, issued, now, NotTheRecords>>

call_update_status(instance_id, status, activity, active_files) ==
    /\ records' = update_status(records, instance_id, status, activity, active_files).insts
    /\ UNCHANGED <<found, issued, now, NotTheRecords>>

call_check_conflicts(instance_id, files) ==
    /\ records' = check_conflicts(records, now, instance_id, files).insts
    /\ found' = [instance_id |-> instance_id, files |-> files,
                 ret |-> check_conflicts(records, now, instance_id, files).ret]
    /\ UNCHANGED <<issued, now, NotTheRecords>>

call_deregister(instance_id) ==
    /\ records' = deregister_record(records, instance_id).insts
    /\ UNCHANGED <<found, issued, now, NotTheRecords>>

call_list_instances ==
    /\ records' = list_instances(records, now).insts
    /\ UNCHANGED <<found, issued, now, NotTheRecords>>

call_get_instance(instance_id) ==
    /\ records' = get_instance(records, now, instance_id).insts
    /\ UNCHANGED <<found, issued, now, NotTheRecords>>

call_instance_count ==
    /\ records' = instance_count_records(records, now).insts
    /\ UNCHANGED <<found, issued, now, NotTheRecords>>

NextRegistry ==
    \/ \E n \in ClockSteps : seconds_pass(n)
    \/ \E i \in Instances : call_register(i)
    \/ \E i \in Instances, s \in Optional(StatusChoices) : call_heartbeat(i, s)
    \/ \E i \in Instances, s \in Optional(StatusChoices), a \in Optional(ActivityChoices),
          f \in Optional(FileLists) : call_update_status(i, s, a, f)
    \/ \E i \in Instances, f \in FileLists : call_check_conflicts(i, f)
    \/ \E i \in Instances : call_deregister(i)
    \/ call_list_instances
    \/ \E i \in Instances : call_get_instance(i)
    \/ call_instance_count

SpecRegistry == Init /\ [][NextRegistry]_vars

(***************************************************************************)
(* Handoffs (agent_db.py).  A row keeps id, from_agent, to_scope,          *)
(* claimed_by and claimed_at; scopes are sequences of characters.          *)
(***************************************************************************)
\* a NULL timestamp column; a set one is <<seconds>>
NoTime == <<>>

\* what a call leaves in the handoffs table and what it returns
HOut(hs, ret) == [handoffs |-> hs, ret |-> ret]

\* INSERT INTO agents: the id is the primary key
create_agent(ags, agent_id) ==
    IF agent_id \in ags THEN [agents |-> ags, ret |-> "IntegrityError"]
    ELSE [agents |-> ags \cup {agent_id}, ret |-> "agent"]

\* INSERT INTO handoffs: from_agent REFERENCES agents(id)
create_handoff(hs, ags, from_agent, to_scope, t) ==
    IF from_agent \notin ags THEN HOut(hs, "IntegrityError")
    ELSE HOut(Append(hs, [id |-> Len(hs) + 1, from_agent |-> from_agent,
                          to_scope |-> to_scope, claimed_by |-> NULL,
                          created_at |-> t, claimed_at |-> NoTime]), "handoff")

\* ? LIKE '%' || to_scope || '%'
contains(scope, to_scope) ==
    \E i \in 1..(Len(scope) + 1) :
        /\ i + Len(to_scope) - 1 <= Len(scope)
        /\ SubSeq(scope, i, i + Len(to_scope) - 1) = to_scope

\* the query without "claimed_by IS NULL"
get_handoffs_in_scope(hs, scope) ==
    { hs[i].id : i \in { j \in DOMAIN hs :
        \/ hs[j].to_scope = scope
        \/ hs[j].to_scope = ScopeAll
        \/ contains(scope, hs[j].to_scope) } }

\* the ids get_unclaimed_handoffs(scope) returns
get_unclaimed_handoffs(hs, scope) ==
    { hs[i].id : i \in { j \in DOMAIN hs :
        /\ hs[j].claimed_by = NULL
        /\ \/ hs[j].to_scope = scope
           \/ hs[j].to_scope = ScopeAll
           \/ contains(scope, hs[j].to_scope) } }

\* the UPDATE without "AND claimed_by IS NULL"
claim_update_unconditional(hs, ags, handoff_id, agent_id, t) ==
    IF handoff_id \notin DOMAIN hs
    THEN [handoffs |-> hs, rowcount |-> 0, raised |-> FALSE]
    ELSE IF agent_id \notin ags
    THEN [handoffs |-> hs, rowcount |-> 0, raised |-> TRUE]
    ELSE [handoffs |-> [hs EXCEPT ![handoff_id].claimed_by = agent_id,
                                  ![handoff_id].claimed_at = <<t>>],
          rowcount |-> 1, raised |-> FALSE]

\* UPDATE handoffs SET claimed_by, claimed_at WHERE id = ? AND claimed_by IS NULL;
\* claimed_by REFERENCES agents(id); rowcount tells whether a row was written
claim_update(hs, ags, handoff_id, agent_id, t) ==
    IF handoff_id \notin DOMAIN hs \/ hs[handoff_id].claimed_by # NULL
    THEN [handoffs |-> hs, rowcount |-> 0, raised |-> FALSE]
    ELSE IF agent_id \notin ags
    THEN [handoffs |-> hs, rowcount |-> 0, raised |-> TRUE]
    ELSE [handoffs |-> [hs EXCEPT ![handoff_id].claimed_by = agent_id,
                                  ![handoff_id].claimed_at = <<t>>],
          rowcount |-> 1, raised |-> FALSE]

\* claim_handoff as one call
claim_handoff(hs, ags, handoff_id, agent_id, t) ==
    LET u == claim_update(hs, ags, handoff_id, agent_id, t)
    IN IF u.raised THEN HOut(hs, "IntegrityError")
       ELSE IF u.rowcount = 0 THEN HOut(hs, NULL)
       ELSE HOut(u.handoffs, "handoff")

\* the age test as "older than max_age": a claim exactly max_age old stays
stale_older_only(hs, active_agent_ids, max_age_seconds, t) ==
    { i \in DOMAIN hs :
        /\ hs[i].claimed_by # NULL
        /\ hs[i].claimed_by \notin active_agent_ids
        /\ ~ (t - hs[i].claimed_at[1] <= max_age_seconds) }

\* the rows release_stale_claims(active, max_age) resets at time t
stale(hs, active_agent_ids, max_age_seconds, t) ==
    { i \in DOMAIN hs :
        /\ hs[i].claimed_by # NULL
        /\ hs[i].claimed_by \notin active_agent_ids
        /\ ~ (t - hs[i].claimed_at[1] < max_age_seconds) }

release_stale_claims(hs, active_agent_ids, max_age_seconds, t) ==
    LET hit == stale(hs, active_agent_ids, max_age_seconds, t)
    IN HOut([i \in DOMAIN hs |->
               IF i \in hit THEN [hs[i] EXCEPT !.claimed_by = NULL, !.claimed_at = NoTime]
               ELSE hs[i]],
            Cardinality(hit))

\* threading.Lock of agent_db
dblock_is_free == dblock = NULL

NotTheDb == <<taskVars, raceVars, regVars, now, extVars>>
NotTheDb_agents == <<taskVars, raceVars, regVars, now, kgVars, scVars, relVars, addVars>>

call_create_agent(agent_id) ==
    /\ dblock_is_free
    /\ agents' = create_agent(agents, agent_id).agents
    /\ UNCHANGED <<handoffs, dblock, hthr, wins, rels, NotTheDb>>

call_create_handoff(from_agent, to_scope) ==
    /\ dblock_is_free
    /\ Len(handoffs) < MaxHandoffs
    /\ LET r == create_handoff(handoffs, agents, from_agent, to_scope, now)
       IN /\ handoffs' = r.handoffs
          /\ wins' = IF r.ret = "handoff" THEN Append(wins, 0) ELSE wins
          /\ rels' = IF r.ret = "handoff" THEN Append(rels, 0) ELSE rels
    /\ UNCHANGED <<agents, dblock, hthr, NotTheDb>>

\* the request arrives and reads the clock; unclaimed, known and rel0 record
\* what holds at that moment
ho_call(a, handoff_id) ==
    /\ hthr[a].pc = "idle"
    /\ handoff_id \in DOMAIN handoffs
    /\ hthr' = [hthr EXCEPT ![a] =
                  [IdleClaim EXCEPT !.pc = "wait", !.handoff_id = handoff_id, !.now = now,
                      !.unclaimed = (handoffs[handoff_id].claimed_by = NULL),
                      !.known = (a \in agents),
                      !.rel0 = rels[handoff_id]]]
    /\ UNCHANGED <<agents, handoffs, dblock, wins, rels, NotTheDb>>

\* with _lock: the UPDATE and its commit
ho_update(a) ==
    /\ hthr[a].pc = "wait"
    /\ dblock_is_free
    /\ LET u == claim_update(handoffs, agents, hthr[a].handoff_id, a, hthr[a].now)
       IN /\ handoffs' = u.handoffs
          /\ dblock' = IF u.raised THEN dblock ELSE a
          /\ hthr' = [hthr EXCEPT ![a].pc = IF u.raised THEN "done" ELSE "updated",
                                  ![a].rowcount = u.rowcount,
                                  ![a].ret = IF u.raised THEN "IntegrityError" ELSE NULL]
    /\ UNCHANGED <<agents, wins, rels, NotTheDb>>

\* rowcount decides the result; the with block releases the lock
ho_return(a) ==
    /\ hthr[a].pc = "updated"
    /\ dblock' = IF dblock = a THEN NULL ELSE dblock
    /\ hthr' = [hthr EXCEPT ![a].pc = "done",
                            ![a].ret = IF hthr[a].rowcount = 0 THEN NULL ELSE "handoff"]
    /\ wins' = IF hthr[a].rowcount = 0 THEN wins
               ELSE [wins EXCEPT ![hthr[a].handoff_id] = @ + 1]
    /\ UNCHANGED <<agents, handoffs, rels, NotTheDb>>

call_release_stale_claims(active_agent_ids, max_age_seconds) ==
    /\ dblock_is_free
    /\ LET hit == stale(handoffs, active_agent_ids, max_age_seconds, now)
       IN /\ handoffs' = release_stale_claims(handoffs, active_agent_ids, max_age_seconds, now).handoffs
          /\ rels' = [i \in DOMAIN rels |-> IF i \in hit THEN rels[i] + 1 ELSE rels[i]]
    /\ UNCHANGED <<agents, dblock, hthr, wins, NotTheDb>>

handoff_time_passes ==
    /\ now < MaxClock * TickSeconds
    /\ now' = now + TickSeconds
    /\ UNCHANGED <<taskVars, raceVars, regVars, hoVars, extVars>>

\* the max_age_seconds values the reaper is run with
MaxAgeChoices == {0, TickSeconds}

NextHandoff ==
    \/ \E a \in AgentIds : call_create_agent(a)
    \/ \E a \in AgentIds, sc \in HandoffScopes : call_create_handoff(a, sc)
    \/ \E a \in AgentIds, h \in 1..MaxHandoffs : ho_call(a, h)
    \/ \E a \in AgentIds : ho_update(a)
    \/ \E a \in AgentIds : ho_return(a)
    \/ \E act \in SUBSET AgentIds, age \in MaxAgeChoices : call_release_stale_claims(act, age)
    \/ handoff_time_passes

SpecHandoff == Init /\ [][NextHandoff]_vars

(***************************************************************************)
(* The task board as get_available_tasks sees it: tasks of every priority  *)
(* are created, claimed, started and completed.                            *)
(***************************************************************************)
NextAvail ==
    \/ \E s \in ScopeChoices, p \in Priorities, d \in SUBSET TaskIds :
            call_create_task(s, p, d)
    \/ \E t \in TaskIds, i \in Instances : call_claim_task(t, i)
    \/ \E t \in TaskIds, i \in Instances : call_start_task(t, i)
    \/ \E t \in TaskIds, i \in Instances : call_complete_task(t, i)

SpecAvail == Init /\ [][NextAvail]_vars

(***************************************************************************)
(* _scopes_overlap called on its own, with scopes of every shape.          *)
(***************************************************************************)
call_scopes_overlap(scope_a, scope_b) ==
    /\ argA' = scope_a
    /\ argB' = scope_b
    /\ conflicts' = scopes_overlap(scope_a, scope_b)
    /\ UNCHANGED <<taskVars, raceVars, regVars, now, hoVars, agVars, kgVars, relVars, addVars>>

NextScope == \E a \in ScopeArgs, b \in ScopeArgs : call_scopes_overlap(a, b)

SpecScope == Init /\ [][NextScope]_vars

(***************************************************************************)
(* Agent ids (agent_db.py): create_agent without an id asks                *)
(* generate_agent_id for one and then inserts; each takes _lock itself.    *)
(***************************************************************************)
\* int(suffix) of the ids LIKE 'CH-YYMMDD-%'
existing_nums(ags) == { n \in DOMAIN CHIds : CHIds[n] \in ags }

SetMax(S) == IF S = {} THEN 0 ELSE CHOOSE m \in S : \A k \in S : k <= m

\* next_num = max(existing_nums, default=0) + 1
next_num(ags) == SetMax(existing_nums(ags)) + 1

generate_agent_id(ags) == CHIds[next_num(ags)]

\* create_agent(agent_id=None) is entered
cr_call(c) ==
    /\ cthr[c].pc = "idle"
    /\ cthr' = [cthr EXCEPT ![c].pc = "generate"]
    /\ UNCHANGED <<hoVars, NotTheDb_agents>>

\* generate_agent_id: with _lock: SELECT, max + 1; the lock is released on return
cr_generate(c) ==
    /\ cthr[c].pc = "generate"
    /\ dblock_is_free
    /\ next_num(agents) \in DOMAIN CHIds
    /\ cthr' = [cthr EXCEPT ![c].pc = "insert", ![c].agent_id = generate_agent_id(agents)]
    /\ UNCHANGED <<hoVars, NotTheDb_agents>>

\* create_agent: with _lock: INSERT, commit, return
cr_insert(c) ==
    /\ cthr[c].pc = "insert"
    /\ dblock_is_free
    /\ LET r == create_agent(agents, cthr[c].agent_id)
       IN /\ agents' = r.agents
          /\ cthr' = [cthr EXCEPT ![c].pc = "done", ![c].ret = r.ret]
    /\ UNCHANGED <<handoffs, dblock, hthr, wins, rels, NotTheDb_agents>>

\* create_agent with an id given by the caller
cr_create_agent(agent_id) ==
    /\ dblock_is_free
    /\ agents' = create_agent(agents, agent_id).agents
    /\ UNCHANGED <<handoffs, dblock, hthr, wins, rels, cthr, NotTheDb_agents>>

NextAgent ==
    \/ \E c \in Creators : cr_call(c)
    \/ \E c \in Creators : cr_generate(c)
    \/ \E c \in Creators : cr_insert(c)
    \/ \E a \in AgentIds \cup {CHIds[1]} : cr_create_agent(a)

SpecAgent == Init /\ [][NextAgent]_vars

(***************************************************************************)
(* claim_all_handoffs, preview_context and bootstrap_context (agent_db.py) *)
(* A claim_all_handoffs call lists the unclaimed handoffs of its scope and *)
(* then claims them one claim_handoff call at a time; each of these takes  *)
(* _lock itself, so two calls interleave between any two of them.          *)
(***************************************************************************)
SetMin(S) == CHOOSE m \in S : \A k \in S : m <= k

\* what a call leaves in the handoffs table, the ids of the handoffs it
\* returns and whether it raised
BOut(hs, ret, raised) == [handoffs |-> hs, ret |-> ret, raised |-> raised]

RECURSIVE claim_each(_, _, _, _, _, _)
\* for h in unclaimed: result = claim_handoff(h["id"], agent_id)
claim_each(hs, ags, todo, claimed, agent_id, t) ==
    IF todo = {} THEN BOut(hs, claimed, FALSE)
    ELSE LET h == SetMin(todo)
             r == claim_handoff(hs, ags, h, agent_id, t)
         IN IF r.ret = "IntegrityError" THEN BOut(hs, claimed, TRUE)
            ELSE claim_each(r.handoffs, ags, todo \ {h},
                            IF r.ret = "handoff" THEN claimed \cup {h} ELSE claimed,
                            agent_id, t)

\* claim_all_handoffs run from its first step to its last
claim_all_handoffs(hs, ags, scope, agent_id, t) ==
    claim_each(hs, ags, get_unclaimed_handoffs(hs, scope), {}, agent_id, t)

\* a preview that marks what it shows as claimed
preview_context_claims(hs, workspace) ==
    BOut([h \in DOMAIN hs |->
             IF h \in get_unclaimed_handoffs(hs, workspace)
             THEN [hs[h] EXCEPT !.claimed_by = "preview"] ELSE hs[h]],
         get_unclaimed_handoffs(hs, workspace), FALSE)

\* handoffs = get_unclaimed_handoffs(workspace)
preview_context(hs, workspace) ==
    BOut(hs, get_unclaimed_handoffs(hs, workspace), FALSE)

\* claimed = claim_all_handoffs(workspace, agent_id); the list read at step 1
\* is not used
bootstrap_context(hs, ags, workspace, agent_id, t) ==
    claim_all_handoffs(hs, ags, workspace, agent_id, t)

NotTheClaimAll == <<taskVars, raceVars, regVars, now, agVars, kgVars, scVars, relVars, fsVars, recVars, endVars, svcVars>>

\* unclaimed = get_unclaimed_handoffs(scope); known records whether the
\* agent has a row at that moment
ca_call(a, scope) ==
    /\ cath[a].pc = "idle"
    /\ dblock_is_free
    /\ cath' = [cath EXCEPT ![a] =
                  [IdleClaimAll EXCEPT !.pc = "claiming", !.scope = scope,
                      !.todo = get_unclaimed_handoffs(handoffs, scope),
                      !.listed = get_unclaimed_handoffs(handoffs, scope),
                      !.known = (a \in agents)]]
    /\ UNCHANGED <<hoVars, pv, NotTheClaimAll>>

\* result = claim_handoff(h["id"], agent_id) for the next h of the list
ca_claim(a) ==
    /\ cath[a].pc = "claiming"
    /\ cath[a].todo # {}
    /\ dblock_is_free
    /\ LET h == SetMin(cath[a].todo)
           r == claim_handoff(handoffs, agents, h, a, now)
       IN /\ handoffs' = r.handoffs
          /\ wins' = IF r.ret = "handoff" THEN [wins EXCEPT ![h] = @ + 1] ELSE wins
          /\ cath' = [cath EXCEPT
                         ![a].pc = IF r.ret = "IntegrityError" THEN "done" ELSE @,
                         ![a].raised = (r.ret = "IntegrityError"),
                         ![a].todo = @ \ {h},
                         ![a].claimed = IF r.ret = "handoff" THEN @ \cup {h} ELSE @]
    /\ UNCHANGED <<agents, dblock, hthr, rels, pv, NotTheClaimAll>>

\* return claimed
ca_return(a) ==
    /\ cath[a].pc = "claiming"
    /\ cath[a].todo = {}
    /\ cath' = [cath EXCEPT ![a].pc = "done"]
    /\ UNCHANGED <<hoVars, pv, NotTheClaimAll>>

\* the callers have their results and may call again
ca_respond ==
    /\ \A a \in AgentIds : cath[a].pc # "claiming"
    /\ \E a \in AgentIds : cath[a].pc = "done"
    /\ cath' = [a \in AgentIds |-> IdleClaimAll]
    /\ UNCHANGED <<hoVars, pv, NotTheClaimAll>>

\* GET /agents/context
call_preview_context(workspace) ==
    /\ dblock_is_free
    /\ handoffs' = preview_context(handoffs, workspace).handoffs
    /\ pv' = [workspace |-> workspace, ret |-> preview_context(handoffs, workspace).ret]
    /\ UNCHANGED <<agents, dblock, hthr, wins, rels, cath, NotTheClaimAll>>

NextClaimAll ==
    \/ \E a \in AgentIds : call_create_agent(a)
    \/ \E a \in AgentIds, sc \in HandoffScopes : call_create_handoff(a, sc)
    \/ \E a \in AgentIds, sc \in HandoffScopes : ca_call(a, sc)
    \/ \E a \in AgentIds : ca_claim(a)
    \/ \E a \in AgentIds : ca_return(a)
    \/ ca_respond
    \/ \E sc \in HandoffScopes : call_preview_context(sc)

SpecClaimAll == Init /\ [][NextClaimAll]_vars

(***************************************************************************)
(* end_agent (agent_db.py): one UPDATE under _lock                         *)
(***************************************************************************)
\* the UPDATE without "AND ended_at IS NULL"
end_agent_any_row(ags, en, agent_id, summary, t) ==
    IF agent_id \in ags
    THEN [ended |-> [en EXCEPT ![agent_id] = [ended_at |-> <<t>>, end_summary |-> summary]],
          ret |-> TRUE]
    ELSE [ended |-> en, ret |-> FALSE]

\* UPDATE agents SET ended_at, end_summary WHERE id = ? AND ended_at IS NULL;
\* return cursor.rowcount > 0
end_agent(ags, en, agent_id, summary, t) ==
    IF agent_id \in ags /\ en[agent_id].ended_at = <<>>
    THEN [ended |-> [en EXCEPT ![agent_id] = [ended_at |-> <<t>>, end_summary |-> summary]],
          ret |-> TRUE]
    ELSE [ended |-> en, ret |-> FALSE]

call_end_agent(agent_id, summary) ==
    /\ dblock_is_free
    /\ ended' = end_agent(agents, ended, agent_id, summary, now).ended
    /\ UNCHANGED <<taskVars, raceVars, regVars, now, hoVars, agVars, kgVars, scVars, relVars,
                   fsVars, recVars, bootVars, svcVars>>

NextEnd ==
    \/ \E a \in AgentIds \cup {CHIds[1]} : cr_create_agent(a)
    \/ \E a \in AgentIds \cup {CHIds[1]}, s \in Summaries : call_end_agent(a, s)
    \/ handoff_time_passes

SpecEnd == Init /\ [][NextEnd]_vars

(***************************************************************************)
(* Knowledge graph (howell_bridge.py, mcp_transport.py).  A graph is       *)
(* entities: name -> list of observations, and relations: list of          *)
(* <<from_entity, relation_type, to_entity>>.  Every tool is load, change, *)
(* save; it returns the graph it saved and "result", or the graph it       *)
(* loaded and "error".                                                     *)
(***************************************************************************)
KOut(g, ret) == [kg |-> g, ret |-> ret]

\* dict with key k removed / set
EntDel(ents, k) == [n \in (DOMAIN ents) \ {k} |-> ents[n]]
EntPut(ents, k, v) == [n \in (DOMAIN ents) \cup {k} |-> IF n = k THEN v ELSE ents[n]]

\* set(list)
Elems(q) == { q[i] : i \in DOMAIN q }

\* [x for x in q if keep(x)], keep given as the set of kept values
RECURSIVE SeqKeep(_, _)
SeqKeep(q, keep) ==
    IF q = <<>> THEN <<>>
    ELSE IF Head(q) \in keep THEN <<Head(q)>> \o SeqKeep(Tail(q), keep)
    ELSE SeqKeep(Tail(q), keep)

\* for obs in observations: if obs not in target: target.append(obs)
RECURSIVE append_new(_, _)
append_new(target, observations) ==
    IF observations = <<>> THEN target
    ELSE append_new(IF Head(observations) \in Elems(target) THEN target
                    ELSE Append(target, Head(observations)),
                    Tail(observations))

\* _tool_add_entity
tool_add_entity(g, name, observations) ==
    IF name \in DOMAIN g.entities
    THEN KOut([g EXCEPT !.entities[name] = append_new(@, observations)], "result")
    ELSE KOut([g EXCEPT !.entities = EntPut(@, name, observations)], "result")

\* _tool_add_observation, HowellHandler._handle_note
tool_add_observation(g, entity, observation) ==
    IF entity \notin DOMAIN g.entities THEN KOut(g, "error")
    ELSE KOut([g EXCEPT !.entities[entity] = Append(@, observation)], "result")

\* KnowledgeGraph.add_relation: append unless the triple is there
add_relation(rels_, triple) ==
    IF triple \in Elems(rels_) THEN rels_ ELSE Append(rels_, triple)

\* _tool_add_relation
tool_add_relation(g, from_e, rel_type, to_e) ==
    IF {from_e, to_e} \subseteq DOMAIN g.entities
    THEN KOut([g EXCEPT !.relations = add_relation(@, <<from_e, rel_type, to_e>>)], "result")
    ELSE KOut(g, "error")

\* _tool_delete_entity
tool_delete_entity(g, name) ==
    IF name \notin DOMAIN g.entities THEN KOut(g, "error")
    ELSE KOut([entities |-> EntDel(g.entities, name),
               relations |-> SeqKeep(g.relations,
                   { r \in Elems(g.relations) : r[1] # name /\ r[3] # name })], "result")

\* _tool_delete_relation: the file is saved whether or not a triple was removed
tool_delete_relation(g, from_e, rel_type, to_e) ==
    LET kept == SeqKeep(g.relations, Elems(g.relations) \ {<<from_e, rel_type, to_e>>})
    IN KOut([g EXCEPT !.relations = kept],
            IF Len(kept) < Len(g.relations) THEN "result" ELSE "error")

\* rel.from_entity / rel.to_entity repointed from old to new
repoint(rels_, old, new) ==
    [i \in DOMAIN rels_ |->
        <<IF rels_[i][1] = old THEN new ELSE rels_[i][1],
          rels_[i][2],
          IF rels_[i][3] = old THEN new ELSE rels_[i][3]>>]

\* _tool_rename_entity
tool_rename_entity(g, old_name, new_name) ==
    IF old_name \notin DOMAIN g.entities THEN KOut(g, "error")
    ELSE IF new_name \in DOMAIN g.entities THEN KOut(g, "error")
    ELSE KOut([entities |-> EntDel(EntPut(g.entities, new_name, g.entities[old_name]), old_name),
               relations |-> repoint(g.relations, old_name, new_name)], "result")

\* for obs in source: if obs not in existing: target.append(obs), existing
\* being set(target) as it was before the loop
RECURSIVE append_missing(_, _, _)
append_missing(target, source, existing) ==
    IF source = <<>> THEN target
    ELSE append_missing(IF Head(source) \in existing THEN target
                        ELSE Append(target, Head(source)),
                        Tail(source), existing)

\* the deduped list: first occurrences, self-loops dropped
RECURSIVE dedup_relations(_, _)
dedup_relations(rels_, seen) ==
    IF rels_ = <<>> THEN <<>>
    ELSE LET key == Head(rels_)
         IN IF key \notin seen /\ key[1] # key[3]
            THEN <<key>> \o dedup_relations(Tail(rels_), seen \cup {key})
            ELSE dedup_relations(Tail(rels_), seen)

\* _tool_merge_entities
tool_merge_entities(g, source, target) ==
    IF source \notin DOMAIN g.entities THEN KOut(g, "error")
    ELSE IF target \notin DOMAIN g.entities THEN KOut(g, "error")
    ELSE LET merged == append_missing(g.entities[target], g.entities[source],
                                      Elems(g.entities[target]))
             ents == [g.entities EXCEPT ![target] = merged]
         IN KOut([entities |-> EntDel(ents, source),
                  relations |-> dedup_relations(repoint(g.relations, source, target), {})],
                 "result")

\* a tool request: the tool, its entity arguments and its observations
Req(op, a, b, obs) == [op |-> op, a |-> a, b |-> b, obs |-> obs]

ObsChoices == {<<>>} \cup { <<o>> : o \in Observations }

Requests ==
    { Req("add_entity", n, NULL, obs) : n \in Names, obs \in ObsChoices }
    \cup { Req("add_observation", n, NULL, <<o>>) : n \in Names, o \in Observations }
    \cup { Req("add_relation", f, t, <<>>) : f \in Names, t \in Names }
    \cup { Req("delete_entity", n, NULL, <<>>) : n \in Names }
    \cup { Req("delete_relation", f, t, <<>>) : f \in Names, t \in Names }
    \cup { Req("rename_entity", f, t, <<>>) : f \in Names, t \in Names }
    \cup { Req("merge_entities", f, t, <<>>) : f \in Names, t \in Names }

\* _TOOL_MAP: the tool a request names, run on the graph it loaded
run_tool(g, req) ==
    CASE req.op = "add_entity" -> tool_add_entity(g, req.a, req.obs)
      [] req.op = "add_observation" -> tool_add_observation(g, req.a, req.obs[1])
      [] req.op = "add_relation" -> tool_add_relation(g, req.a, "owns", req.b)
      [] req.op = "delete_entity" -> tool_delete_entity(g, req.a)
      [] req.op = "delete_relation" -> tool_delete_relation(g, req.a, "owns", req.b)
      [] req.op = "rename_entity" -> tool_rename_entity(g, req.a, req.b)
      [] OTHER -> tool_merge_entities(g, req.a, req.b)

\* whether the tool reaches save_knowledge
saves(g, req) == req.op = "delete_relation" \/ run_tool(g, req).ret = "result"

\* knowledge.json after one tool call that runs alone
after_tool(g, req) == IF saves(g, req) THEN run_tool(g, req).kg ELSE g

\* the add tools stop at MaxObs observations per entity
ObsRoom(g, req) ==
    \A n \in DOMAIN after_tool(g, req).entities :
        Len(after_tool(g, req).entities[n]) > MaxObs =>
            n \in DOMAIN g.entities /\ Len(after_tool(g, req).entities[n]) <= Len(g.entities[n])

NotTheGraph == <<taskVars, raceVars, regVars, now, hoVars, agVars, scVars, relVars, addVars>>

\* howell_add_entity, from load_knowledge to save_knowledge with no other call in between
call_add_entity(name, observations) ==
    /\ ObsRoom(kg, Req("add_entity", name, NULL, observations))
    /\ kg' = after_tool(kg, Req("add_entity", name, NULL, observations))
    /\ UNCHANGED <<kthr, kg0, nreq, NotTheGraph>>

\* howell_add_observation, from load_knowledge to save_knowledge with no other call in between
call_add_observation(entity, observation) ==
    /\ ObsRoom(kg, Req("add_observation", entity, NULL, <<observation>>))
    /\ kg' = after_tool(kg, Req("add_observation", entity, NULL, <<observation>>))
    /\ UNCHANGED <<kthr, kg0, nreq, NotTheGraph>>

\* howell_add_relation, from load_knowledge to save_knowledge with no other call in between
call_add_relation(from_e, to_e) ==
    /\ ObsRoom(kg, Req("add_relation", from_e, to_e, <<>>))
    /\ kg' = after_tool(kg, Req("add_relation", from_e, to_e, <<>>))
    /\ UNCHANGED <<kthr, kg0, nreq, NotTheGraph>>

\* howell_delete_entity, from load_knowledge to save_knowledge with no other call in between
call_delete_entity(name) ==
    /\ ObsRoom(kg, Req("delete_entity", name, NULL, <<>>))
    /\ kg' = after_tool(kg, Req("delete_entity", name, NULL, <<>>))
    /\ UNCHANGED <<kthr, kg0, nreq, NotTheGraph>>

\* howell_delete_relation, from load_knowledge to save_knowledge with no other call in between
call_delete_relation(from_e, to_e) ==
    /\ ObsRoom(kg, Req("delete_relation", from_e, to_e, <<>>))
    /\ kg' = after_tool(kg, Req("delete_relation", from_e, to_e, <<>>))
    /\ UNCHANGED <<kthr, kg0, nreq, NotTheGraph>>

\* howell_rename_entity, from load_knowledge to save_knowledge with no other call in between
call_rename_entity(old_name, new_name) ==
    /\ ObsRoom(kg, Req("rename_entity", old_name, new_name, <<>>))
    /\ kg' = after_tool(kg, Req("rename_entity", old_name, new_name, <<>>))
    /\ UNCHANGED <<kthr, kg0, nreq, NotTheGraph>>

\* howell_merge_entities, from load_knowledge to save_knowledge with no other call in between
call_merge_entities(source, target) ==
    /\ ObsRoom(kg, Req("merge_entities", source, target, <<>>))
    /\ kg' = after_tool(kg, Req("merge_entities", source, target, <<>>))
    /\ UNCHANGED <<kthr, kg0, nreq, NotTheGraph>>

NextGraph ==
    \/ \E n \in Names, obs \in ObsChoices : call_add_entity(n, obs)
    \/ \E n \in Names, o \in Observations : call_add_observation(n, o)
    \/ \E f \in Names, t \in Names : call_add_relation(f, t)
    \/ \E n \in Names : call_delete_entity(n)
    \/ \E f \in Names, t \in Names : call_delete_relation(f, t)
    \/ \E f \in Names, t \in Names : call_rename_entity(f, t)
    \/ \E f \in Names, t \in Names : call_merge_entities(f, t)

SpecGraph == Init /\ [][NextGraph]_vars

(***************************************************************************)
(* Tool calls from the request threads of the HTTP server.  A tool holds   *)
(* no lock between load_knowledge and save_knowledge; _io_lock covers      *)
(* only the write of the file.                                             *)
(***************************************************************************)
\* kg = load_knowledge()
kg_load(k, req) ==
    /\ kthr[k].pc = "idle"
    /\ nreq < MaxRequests
    /\ ObsRoom(kg, req)
    /\ kthr' = [kthr EXCEPT ![k] = [pc |-> "loaded", req |-> req, local |-> kg, ret |-> NULL]]
    /\ nreq' = nreq + 1
    /\ UNCHANGED <<kg, kg0, NotTheGraph>>

\* the tool changes the graph it loaded; save_knowledge(kg) replaces the file
kg_save(k) ==
    /\ kthr[k].pc = "loaded"
    /\ kg' = IF saves(kthr[k].local, kthr[k].req)
             THEN run_tool(kthr[k].local, kthr[k].req).kg ELSE kg
    /\ kthr' = [kthr EXCEPT ![k].pc = "done",
                            ![k].ret = run_tool(kthr[k].local, kthr[k].req).ret]
    /\ UNCHANGED <<kg0, nreq, NotTheGraph>>

\* the responses are sent and the threads take new requests
kg_respond ==
    /\ \A k \in KThreads : kthr[k].pc # "loaded"
    /\ \E k \in KThreads : kthr[k].pc = "done"
    /\ kthr' = [k \in KThreads |-> IdleTool]
    /\ kg0' = kg
    /\ UNCHANGED <<kg, nreq, NotTheGraph>>

NextKG ==
    \/ \E k \in KThreads, req \in Requests : kg_load(k, req)
    \/ \E k \in KThreads : kg_save(k)
    \/ kg_respond

SpecKG == Init /\ [][NextKG]_vars

(***************************************************************************)
(* The store files (task_queue._load_tasks and _save_tasks,                *)
(* howell_bridge.load_knowledge and save_knowledge).  A store is a primary *)
(* file with a .bak and a .tmp beside it; documents are named, not spelled *)
(* out.  Every save runs under a lock (_lock, _io_lock), so a store has at *)
(* most one save in flight.  write_text opens the file, which empties it,  *)
(* and then writes: a write that fails or is cut short leaves a partial    *)
(* file.                                                                   *)
(***************************************************************************)
NotTheFiles == <<taskVars, raceVars, regVars, now, hoVars, agVars, kgVars, scVars, relVars, recVars, bootVars, endVars, svcVars>>

\* Path.replace / Path.rename: the file src takes the place of the file dst
replace(f, src, dst) ==
    IF src = dst THEN f ELSE [f EXCEPT ![dst] = f[src], ![src] = "absent"]

\* a save that writes the document straight to the primary file
tmp_path_is_primary == "primary"

\* tmp_path = TASKS_FILE.with_suffix(".tmp")
tmp_path == "tmp"

\* _save_tasks(tasks) / save_knowledge(kg) is entered with document d
save_call(s, d) ==
    /\ sv[s].pc = "idle"
    /\ sv' = [sv EXCEPT ![s] = [pc |-> "backup", new |-> d,
                                prior |-> disk[s].primary, outcome |-> "none"]]
    /\ UNCHANGED <<disk, ld, NotTheFiles>>

\* if TASKS_FILE.exists(): the primary is read and the .bak opened for
\* writing; a read that raises is passed over
save_backup_begin(s) ==
    /\ sv[s].pc = "backup"
    /\ IF disk[s].primary \in {"absent", "unreadable"}
       THEN /\ sv' = [sv EXCEPT ![s].pc = "tmp"]
            /\ UNCHANGED disk
       ELSE /\ sv' = [sv EXCEPT ![s].pc = "backup_writing"]
            /\ \E c \in Partial : disk' = [disk EXCEPT ![s].bak = c]
    /\ UNCHANGED <<ld, NotTheFiles>>

\* backup.write_text(...) returns: the .bak holds what the primary held
save_backup_end(s) ==
    /\ sv[s].pc = "backup_writing"
    /\ disk' = [disk EXCEPT ![s].bak = sv[s].prior]
    /\ sv' = [sv EXCEPT ![s].pc = "tmp"]
    /\ UNCHANGED <<ld, NotTheFiles>>

\* backup.write_text(...) raises: except Exception: pass
save_backup_fail(s) ==
    /\ sv[s].pc = "backup_writing"
    /\ sv' = [sv EXCEPT ![s].pc = "tmp"]
    /\ UNCHANGED <<disk, ld, NotTheFiles>>

\* tmp_path.write_text(...) opens the temp file
save_tmp_begin(s) ==
    /\ sv[s].pc = "tmp"
    /\ \E c \in Partial : disk' = [disk EXCEPT ![s][tmp_path] = c]
    /\ sv' = [sv EXCEPT ![s].pc = "tmp_writing"]
    /\ UNCHANGED <<ld, NotTheFiles>>

\* tmp_path.write_text(...) returns: the temp file holds the new document
save_tmp_end(s) ==
    /\ sv[s].pc = "tmp_writing"
    /\ disk' = [disk EXCEPT ![s][tmp_path] = sv[s].new]
    /\ sv' = [sv EXCEPT ![s].pc = "rename"]
    /\ UNCHANGED <<ld, NotTheFiles>>

\* tmp_path.write_text(...) raises (disk full): the save raises
save_tmp_fail(s) ==
    /\ sv[s].pc = "tmp_writing"
    /\ sv' = [sv EXCEPT ![s].pc = "idle", ![s].outcome = "raised"]
    /\ UNCHANGED <<disk, ld, NotTheFiles>>

\* tmp_path.replace(TASKS_FILE)
save_rename(s) ==
    /\ sv[s].pc = "rename"
    /\ disk' = [disk EXCEPT ![s] = replace(disk[s], tmp_path, "primary")]
    /\ sv' = [sv EXCEPT ![s].pc = "idle", ![s].outcome = "saved"]
    /\ UNCHANGED <<ld, NotTheFiles>>

\* tmp_path.replace(TASKS_FILE) raises (the target is held open): the save raises
save_rename_fail(s) ==
    /\ sv[s].pc = "rename"
    /\ sv' = [sv EXCEPT ![s].pc = "idle", ![s].outcome = "raised"]
    /\ UNCHANGED <<disk, ld, NotTheFiles>>

\* the process stops; the saves in flight end where they are
process_stops ==
    /\ \E s \in Stores : sv[s].pc # "idle"
    /\ sv' = [s \in Stores |->
                 IF sv[s].pc = "idle" THEN sv[s]
                 ELSE [sv[s] EXCEPT !.pc = "idle", !.outcome = "stopped"]]
    /\ UNCHANGED <<disk, ld, NotTheFiles>>

NextSave ==
    \/ \E s \in Stores, d \in Docs : save_call(s, d)
    \/ \E s \in Stores : save_backup_begin(s)
    \/ \E s \in Stores : save_backup_end(s)
    \/ \E s \in Stores : save_backup_fail(s)
    \/ \E s \in Stores : save_tmp_begin(s)
    \/ \E s \in Stores : save_tmp_end(s)
    \/ \E s \in Stores : save_tmp_fail(s)
    \/ \E s \in Stores : save_rename(s)
    \/ \E s \in Stores : save_rename_fail(s)
    \/ process_stops

SpecSave == Init /\ [][NextSave]_vars

\* what a load leaves on disk, what it returns ("empty" is [] or
\* KnowledgeGraph()) and whether it raised
LOut(f, ret, raised) == [files |-> f, ret |-> ret, raised |-> raised]

\* _load_tasks: every exception of the read and the parse is caught
load_tasks(f) ==
    IF f.primary = "absent" THEN LOut(f, "empty", FALSE)
    ELSE IF f.primary \in Docs THEN LOut(f, f.primary, FALSE)
    ELSE IF f.bak \in Docs THEN LOut(f, f.bak, FALSE)
    ELSE LOut(replace(f, "primary", "corrupt"), "empty", FALSE)

\* load_knowledge: except (json.JSONDecodeError, KeyError, TypeError) catches
\* what json.loads and from_dict raise on a cut-off document; what read_text
\* raises (OSError, UnicodeDecodeError) is none of the three
load_knowledge(f) ==
    IF f.primary = "absent" THEN LOut(f, "empty", FALSE)
    ELSE IF f.primary \in Docs THEN LOut(f, f.primary, FALSE)
    ELSE IF f.primary = "unreadable" THEN LOut(f, "none", TRUE)
    ELSE IF f.bak \in Docs THEN LOut(f, f.bak, FALSE)
    ELSE LOut(f, "empty", FALSE)

\* the files after a save of document d that ran to its end
save(f, d) ==
    LET backed == IF f.primary \in {"absent", "unreadable"} THEN f
                  ELSE [f EXCEPT !.bak = f.primary]
    IN replace([backed EXCEPT ![tmp_path] = d], tmp_path, "primary")

\* _save_tasks(tasks) / save_knowledge(kg), from its first step to its last
call_save(s, d) ==
    /\ sv[s].pc = "idle"
    /\ disk' = [disk EXCEPT ![s] = save(disk[s], d)]
    /\ UNCHANGED <<sv, ld, NotTheFiles>>

\* tasks = _load_tasks(), inside `with _lock`: no save of the store in flight
call_load_tasks ==
    /\ sv["tasks"].pc = "idle"
    /\ disk' = [disk EXCEPT !["tasks"] = load_tasks(disk["tasks"]).files]
    /\ ld' = [ld EXCEPT !["tasks"] = [ret |-> load_tasks(disk["tasks"]).ret,
                                      raised |-> load_tasks(disk["tasks"]).raised]]
    /\ UNCHANGED <<sv, NotTheFiles>>

\* kg = load_knowledge(); no lock is taken
call_load_knowledge ==
    /\ ld' = [ld EXCEPT !["knowledge"] = [ret |-> load_knowledge(disk["knowledge"]).ret,
                                          raised |-> load_knowledge(disk["knowledge"]).raised]]
    /\ UNCHANGED <<disk, sv, NotTheFiles>>

\* a file is damaged from outside (a disk fault, an editor, a sync tool)
file_damaged(s, which, c) ==
    /\ sv[s].pc = "idle"
    /\ disk[s][which] # "absent"
    /\ disk' = [disk EXCEPT ![s][which] = c]
    /\ UNCHANGED <<sv, ld, NotTheFiles>>

NextLoad ==
    \/ \E s \in Stores, d \in Docs : call_save(s, d)
    \/ call_load_tasks
    \/ call_load_knowledge
    \/ \E s \in Stores, which \in {"primary", "bak"}, c \in Partial : file_damaged(s, which, c)

SpecLoad == Init /\ [][NextLoad]_vars

(***************************************************************************)
(* Claims about the task store                                             *)
(***************************************************************************)
ActiveIdx == { i \in DOMAIN tasks : tasks[i].status \in Active }

\* C1: in every reachable state no two distinct tasks that are both claimed
\* or in-progress have overlapping scopes.
C1_NoOverlappingActive ==
    \A i \in ActiveIdx : \A j \in ActiveIdx :
        i # j => scopes_overlap(tasks[i].scope, tasks[j].scope) = {}

\* two tasks are active at once, and a third scope choice would overlap one
C1_Witness ==
    /\ \E i \in ActiveIdx : \E j \in ActiveIdx : i # j
    /\ \E i \in ActiveIdx : \E s \in ScopeChoices :
          s # tasks[i].scope /\ scopes_overlap(s, tasks[i].scope) # {}

\* C2: every task whose status is neither pending nor failed has only
\* dependencies that name a completed task.
C2_DependenciesCompleted ==
    \A i \in DOMAIN tasks :
        tasks[i].status \notin {"pending", "failed"}
            => tasks[i].dependencies \subseteq completed_ids(tasks)

\* C4: claimed_by is non-null if and only if the status is claimed or
\* in-progress.
C4_ClaimedByIffActive ==
    \A i \in DOMAIN tasks :
        (tasks[i].claimed_by # NULL) <=> (tasks[i].status \in Active)

Rejected(out) == out = Out(tasks, NULL)

\* C5: for every task and every instance id J that is not its current
\* claimer, start_task, add_task_note, complete_task, fail_task and
\* release_task called with J return null and leave the store unchanged.
C5_OnlyClaimerTransitions ==
    \A t \in Ids(tasks) : \A J \in Instances :
        J # Task(tasks, t).claimed_by =>
            /\ Rejected(start_task(tasks, t, J))
            /\ Rejected(add_task_note(tasks, t, J))
            /\ Rejected(complete_task(tasks, t, J))
            /\ Rejected(fail_task(tasks, t, J))
            /\ Rejected(release_task(tasks, t, J))

\* an in-progress task whose claimer may fail it while the other instance
\* is turned away
C5_Witness ==
    \E t \in Ids(tasks) : \E I \in Instances : \E J \in Instances :
        /\ I # J
        /\ Task(tasks, t).status = "in-progress"
        /\ Task(tasks, t).claimed_by = I
        /\ fail_task(tasks, t, I).ret = "task"
        /\ Rejected(fail_task(tasks, t, J))

\* C6: once a task is completed, no later call changes its status; it can
\* only be deleted.
C6_CompletedIsTerminal ==
    [][ \A t \in Ids(tasks) :
          (Task(tasks, t).status = "completed" /\ t \in Ids(tasks'))
              => Task(tasks', t).status = "completed" ]_vars

\* availability at the moment the lock is held: pending, every dependency
\* completed, no overlap with a claimed or in-progress task
Available(t) ==
    /\ t \in Ids(tasks)
    /\ Task(tasks, t).status = "pending"
    /\ Task(tasks, t).dependencies \subseteq completed_ids(tasks)
    /\ \A j \in ActiveIdx : scopes_overlap(Task(tasks, t).scope, tasks[j].scope) = {}

\* C7: claim_task succeeds only if the task is pending, every dependency is
\* completed and its scope overlaps no claimed or in-progress task;
\* otherwise it returns null and leaves the store unchanged.
C7_ClaimOnlyIfAvailable ==
    \A t \in TaskIds : \A I \in Instances :
        ~ Available(t) => Rejected(claim_task(tasks, t, I))

\* the threads whose call on task t has returned and was made while t was
\* pending and claimable
RacersDone(t) ==
    { i \in Instances : thr[i].pc = "done" /\ thr[i].task_id = t /\ thr[i].avail }

Winners(t) == { i \in RacersDone(t) : thr[i].ret = "task" }

\* C8: when two or more instances call claim_task concurrently on the same
\* pending, available task, exactly one call returns the task, every other
\* returns null, and the stored claimed_by is the winner's id.
C8_ExactlyOneClaimWins ==
    \A t \in TaskIds :
        Cardinality(RacersDone(t)) >= 2 =>
            /\ Cardinality(Winners(t)) = 1
            /\ \A i \in RacersDone(t) \ Winners(t) : thr[i].ret = NULL
            /\ \A i \in Winners(t) : Task(tasks, t).claimed_by = i

\* two calls on the same claimable task have both returned
C8_Witness ==
    \E t \in TaskIds :
        /\ Cardinality(RacersDone(t)) >= 2
        /\ Task(tasks, t).status = "claimed"

ClaimedBy(t, I) ==
    /\ t \in Ids(tasks)
    /\ Task(tasks, t).status \in Active
    /\ Task(tasks, t).claimed_by = I

BackToPending(t) ==
    /\ t \in Ids(tasks)
    /\ Task(tasks, t).status = "pending"
    /\ Task(tasks, t).claimed_by = NULL

\* C3: if a task is claimed or in-progress with claimed_by = I and I leaves
\* the registry, by a deregister request or by heartbeat expiry, the task
\* eventually returns to pending with claimed_by = null.
C3_ReleasedWhenInstanceLeaves ==
    \A t \in TaskIds : \A I \in Instances :
        (ClaimedBy(t, I) /\ I \notin DOMAIN instances) ~> BackToPending(t)

\* C3 as amended: if a task is claimed or in-progress with claimed_by = I
\* while the deregister handler for I is about to release I's tasks, the
\* task eventually returns to pending with claimed_by = null, unless I
\* completes it first.
C3_ReleasedByDeregisterRequest ==
    \A t \in TaskIds : \A I \in Instances :
        (ClaimedBy(t, I) /\ dereg[I] = "release")
            ~> (BackToPending(t) \/ (t \in Ids(tasks) /\ Task(tasks, t).status = "completed"))

\* the handler for I has run to its end, I is gone, and a task it had
\* started carries the auto-release note
C3_Witness ==
    \E t \in Ids(tasks) : \E I \in Instances :
        /\ dereg[I] = "idle"
        /\ I \notin DOMAIN instances
        /\ BackToPending(t)
        /\ Task(tasks, t).notes = <<"Auto-released">>
        /\ Task(tasks, t).completed_at = NULL

\* the ids of the tasks get_available_tasks returns
ReturnedIds == { get_available_tasks(tasks)[i].id : i \in DOMAIN get_available_tasks(tasks) }

\* task i is pending, each of its dependencies is the id of a completed
\* task, and its scope overlaps no claimed or in-progress task
IsAvailable(i) ==
    /\ tasks[i].status = "pending"
    /\ \A d \in tasks[i].dependencies :
          \E j \in DOMAIN tasks : tasks[j].id = d /\ tasks[j].status = "completed"
    /\ \A j \in DOMAIN tasks :
          tasks[j].status \in {"claimed", "in-progress"}
              => scopes_overlap(tasks[i].scope, tasks[j].scope) = {}

\* C15: get_available_tasks returns exactly the pending tasks whose
\* dependencies are all completed and whose scope overlaps no claimed or
\* in-progress task, each once; so a task depending on A is absent while A
\* is not completed and present once A is completed.
C15_AvailableExactly ==
    /\ ReturnedIds = { tasks[i].id : i \in { j \in DOMAIN tasks : IsAvailable(j) } }
    /\ Len(get_available_tasks(tasks)) = Cardinality(ReturnedIds)
    /\ \A k \in DOMAIN get_available_tasks(tasks) :
          get_available_tasks(tasks)[k] = Task(tasks, get_available_tasks(tasks)[k].id)

\* B depends on A, A was claimed and completed, and B is returned
C15_Witness ==
    \E i, j \in DOMAIN tasks :
        /\ tasks[j].dependencies = {tasks[i].id}
        /\ tasks[i].status = "completed"
        /\ tasks[j].id \in ReturnedIds

\* critical before high before medium before low
Rank(p) == CASE p = "critical" -> 1 [] p = "high" -> 2 [] p = "medium" -> 3 [] p = "low" -> 4

\* C16: the list get_available_tasks returns is ordered critical, high,
\* medium, low, and tasks of equal priority are in creation order.
C16_AvailableOrdered ==
    \A a, b \in DOMAIN get_available_tasks(tasks) :
        a < b =>
            LET x == get_available_tasks(tasks)[a]
                y == get_available_tasks(tasks)[b]
            IN /\ Rank(x.priority) <= Rank(y.priority)
               /\ Rank(x.priority) = Rank(y.priority)
                     => FirstIdx(tasks, x.id) < FirstIdx(tasks, y.id)

\* two tasks are returned and the one created later comes first
C16_Witness ==
    /\ Len(get_available_tasks(tasks)) = 2
    /\ FirstIdx(tasks, get_available_tasks(tasks)[1].id)
          > FirstIdx(tasks, get_available_tasks(tasks)[2].id)

\* C17: the scope-overlap predicate is symmetric: a overlaps b if and only
\* if b overlaps a.
C17_OverlapSymmetric ==
    /\ conflicts = scopes_overlap(argA, argB)
    /\ (conflicts # {}) <=> (scopes_overlap(argB, argA) # {})

\* a directory of one scope lies under a directory of the other
C17_Witness ==
    /\ argA = mkScope({}, <<DirSrcSub>>, {})
    /\ argB = mkScope({}, <<DirSrc>>, {})
    /\ conflicts # {}

\* a directory string with backslashes turned into forward slashes and one
\* trailing separator
RECURSIVE Slashed(_)
Slashed(d) ==
    IF d = <<>> THEN <<>>
    ELSE <<IF Head(d) = "\\" THEN "/" ELSE Head(d)>> \o Slashed(Tail(d))

RECURSIVE Trimmed(_)
Trimmed(d) == IF d # <<>> /\ d[Len(d)] = "/" THEN Trimmed(SubSeq(d, 1, Len(d) - 1)) ELSE d

Separated(d) == Append(Trimmed(Slashed(d)), "/")

IsPrefix(p, q) == \E n \in 0..Len(q) : p = SubSeq(q, 1, n)

DirScope(d) == mkScope({}, <<d>>, {})

\* C18: two directory scopes overlap exactly when, with backslashes turned
\* into forward slashes and a single trailing separator on each, one is a
\* prefix of the other: src and src/ overlap, src and src/sub overlap in
\* both orders, src and srcs do not.
C18_DirectoryOverlap ==
    /\ (argA.files = {} /\ argB.files = {} /\ argA.tags = {} /\ argB.tags = {}) =>
          ((conflicts # {}) <=>
              \E i \in DOMAIN argA.directories, j \in DOMAIN argB.directories :
                  \/ IsPrefix(Separated(argA.directories[i]), Separated(argB.directories[j]))
                  \/ IsPrefix(Separated(argB.directories[j]), Separated(argA.directories[i])))
    /\ scopes_overlap(DirScope(DirSrc), DirScope(DirSrcSlash)) # {}
    /\ scopes_overlap(DirScope(DirSrc), DirScope(DirSrcSub)) # {}
    /\ scopes_overlap(DirScope(DirSrcSub), DirScope(DirSrc)) # {}
    /\ scopes_overlap(DirScope(DirSrc), DirScope(DirSrcs)) = {}
    /\ scopes_overlap(DirScope(DirSrcs), DirScope(DirSrc)) = {}

\* src and srcs were compared and do not overlap
C18_Witness ==
    /\ argA = DirScope(DirSrc)
    /\ argB = DirScope(DirSrcs)
    /\ conflicts = {}

\* after is before with every claimed or in-progress task of I back to
\* pending, unclaimed, with one auto-release note after its earlier notes,
\* and every other task as it was
ReleasedAll(before, after, I) ==
    /\ Len(after) = Len(before)
    /\ \A n \in DOMAIN before :
          IF before[n].claimed_by = I /\ before[n].status \in {"claimed", "in-progress"}
          THEN /\ after[n].status = "pending"
               /\ after[n].claimed_by = NULL
               /\ after[n].notes = Append(before[n].notes, "Auto-released")
               /\ after[n].id = before[n].id
               /\ after[n].scope = before[n].scope
               /\ after[n].priority = before[n].priority
               /\ after[n].dependencies = before[n].dependencies
          ELSE after[n] = before[n]

\* C19: release_all_for_instance(I) is one atomic step with respect to the
\* other task-store operations: its write turns the store as it is at that
\* moment into the store with all of I's claimed and in-progress tasks
\* released, each with one auto-release note after its earlier notes and
\* every other task unchanged, and a claim_task call never works on a list
\* other than the stored one.
C19_ReleaseAllAtomic ==
    [][/\ \A I \in Instances :
             (rthr[I].pc = "loaded" /\ rthr'[I].pc = "saved") => ReleasedAll(tasks, tasks', I)
       /\ \A i \in Instances :
             thr'[i].pc = "loaded" => thr'[i].local = tasks']_vars

\* two tasks of one instance, one of them with a note, have just been
\* released while another instance's claim_task call waits for the lock
C19_Witness ==
    \E I \in Instances :
        /\ rthr[I].pc = "saved"
        /\ rthr[I].ret = 2
        /\ \E n \in DOMAIN tasks : tasks[n].notes = <<"note", "Auto-released">>
        /\ \E j \in Instances : j # I /\ thr[j].pc = "wait"

\* C20: delete_task on a claimed or in-progress task returns false and
\* leaves the store unchanged; on a pending, completed or failed task it
\* removes exactly that task; create_task followed by delete_task of the new
\* task restores the size of the store.
C20_DeleteTask ==
    /\ \A n \in DOMAIN tasks :
          IF tasks[n].status \in {"claimed", "in-progress"}
          THEN delete_task(tasks, tasks[n].id) = Out(tasks, FALSE)
          ELSE delete_task(tasks, tasks[n].id) =
                   Out(SubSeq(tasks, 1, n - 1) \o SubSeq(tasks, n + 1, Len(tasks)), TRUE)
    /\ \A s \in ScopeChoices :
          LET created == create_task(tasks, nextId, s, "medium", {}).tasks
          IN /\ delete_task(created, nextId).ret = TRUE
             /\ delete_task(created, nextId).tasks = tasks

\* a completed task has been deleted, and the task left in the store
\* depended on it and is in progress, so deleting it is refused
C20_Witness ==
    /\ Len(tasks) = 1
    /\ tasks[1].id = 2
    /\ tasks[1].dependencies = {1}
    /\ tasks[1].status = "in-progress"
    /\ delete_task(tasks, 2).ret = FALSE

(***************************************************************************)
(* Claims about handoffs                                                   *)
(***************************************************************************)
\* C9: over its whole history, reaper runs included, at most one
\* claim_handoff call ever succeeds for a handoff.
C9_AtMostOneClaimEver ==
    \A h \in DOMAIN handoffs : wins[h] <= 1

\* C9 as amended: a handoff is claimed at most once between two releases by
\* the stale-claim reaper, a call that finds it claimed returns null, and
\* claimed_by and claimed_at are set and cleared together.
C9_OneClaimPerRelease ==
    /\ \A h \in DOMAIN handoffs :
          /\ wins[h] <= rels[h] + 1
          /\ (handoffs[h].claimed_by = NULL) <=> (handoffs[h].claimed_at = NoTime)
          /\ handoffs[h].claimed_by # NULL =>
                \A a \in AgentIds :
                    claim_handoff(handoffs, agents, h, a, now) = HOut(handoffs, NULL)
    /\ \A a \in AgentIds :
          (hthr[a].pc = "done" /\ ~ hthr[a].unclaimed /\ hthr[a].rel0 = rels[hthr[a].handoff_id])
              => hthr[a].ret # "handoff"

\* a handoff was claimed, released by the reaper and claimed again
C9_Witness ==
    \E h \in DOMAIN handoffs :
        /\ wins[h] = 2
        /\ rels[h] = 1
        /\ handoffs[h].claimed_by # NULL

\* the agents whose claim_handoff call on h has returned, was made while h
\* was unclaimed, and saw no release of h by the reaper since
ClaimersDone(h) ==
    { a \in AgentIds : /\ hthr[a].pc = "done"
                       /\ hthr[a].handoff_id = h
                       /\ hthr[a].unclaimed
                       /\ hthr[a].known
                       /\ hthr[a].rel0 = rels[h] }

\* C10: when two agents call claim_handoff on the same unclaimed handoff,
\* exactly one call returns the handoff, the other returns null, and
\* get_unclaimed_handoffs for its scope no longer includes it.
C10_ExactlyOneHandoffClaim ==
    \A h \in DOMAIN handoffs :
        Cardinality(ClaimersDone(h)) >= 2 =>
            /\ Cardinality({ a \in ClaimersDone(h) : hthr[a].ret = "handoff" }) = 1
            /\ \A a \in ClaimersDone(h) : hthr[a].ret \in {"handoff", NULL}
            /\ h \notin get_unclaimed_handoffs(handoffs, handoffs[h].to_scope)

\* both agents' calls on the same unclaimed handoff have returned
C10_Witness ==
    \E h \in DOMAIN handoffs :
        /\ Cardinality(ClaimersDone(h)) >= 2
        /\ handoffs[h].claimed_by \in AgentIds

(***************************************************************************)
(* Claims about agent ids                                                  *)
(***************************************************************************)
\* C11: two concurrent create_agent calls without an explicit id on the same
\* day both succeed and get distinct ids; no interleaving of the id
\* computation and the insert gives a duplicate id or a failed insert.
C11_ConcurrentCreatesDistinct ==
    \A c, d \in Creators :
        (c # d /\ cthr[c].pc = "done" /\ cthr[d].pc = "done") =>
            /\ cthr[c].ret = "agent"
            /\ cthr[d].ret = "agent"
            /\ cthr[c].agent_id # cthr[d].agent_id

(***************************************************************************)
(* Claims about the knowledge graph                                        *)
(***************************************************************************)
\* how many times x occurs in the list q
Count(q, x) == Cardinality({ i \in DOMAIN q : q[i] = x })

\* the triple with S rewritten to R
Rewritten(triple, S, R) ==
    <<IF triple[1] = S THEN R ELSE triple[1], triple[2],
      IF triple[3] = S THEN R ELSE triple[3]>>

\* the merged graph has R and not S
MergeEntitiesOk(m, S, R) ==
    /\ S \notin DOMAIN m.entities
    /\ R \in DOMAIN m.entities

\* R holds the union of both observation lists, each observation once
MergeObservationsOk(g, m, S, R) ==
    /\ Elems(m.entities[R]) = Elems(g.entities[R]) \cup Elems(g.entities[S])
    /\ \A o \in Elems(m.entities[R]) : Count(m.entities[R], o) = 1

\* no triple refers to S, none is a self-loop, and every rewritten pre-merge
\* triple that is no self-loop is there once
MergeRelationsOk(g, m, S, R) ==
    /\ \A t \in Elems(m.relations) : t[1] # S /\ t[3] # S /\ t[1] # t[3]
    /\ \A t \in Elems(g.relations) :
          Rewritten(t, S, R)[1] # Rewritten(t, S, R)[3]
              => Count(m.relations, Rewritten(t, S, R)) = 1

\* C13: merging source S into target R removes S, keeps R with the
\* de-duplicated union of both observation lists, leaves no relation that
\* refers to S and no self-loop, and keeps every pre-merge triple, with S
\* rewritten to R, exactly once unless it became a self-loop.
C13_MergeEntities ==
    \A S, R \in DOMAIN kg.entities :
        S # R =>
            LET m == tool_merge_entities(kg, S, R).kg
            IN /\ tool_merge_entities(kg, S, R).ret = "result"
               /\ MergeEntitiesOk(m, S, R)
               /\ MergeObservationsOk(kg, m, S, R)
               /\ MergeRelationsOk(kg, m, S, R)

\* the graph after the requests of order are applied to g one after another
RECURSIVE ApplyAll(_, _)
ApplyAll(g, order) ==
    IF order = <<>> THEN g ELSE ApplyAll(after_tool(g, Head(order)), Tail(order))

\* the threads whose tool call has returned
Returned == { k \in KThreads : kthr[k].pc = "done" }

\* the serial orders of the returned calls
SerialOrders ==
    { f \in [1..Cardinality(Returned) -> Returned] :
        \A i, j \in DOMAIN f : f[i] = f[j] => i = j }

\* C12: knowledge-graph mutations linearize: once the concurrent tool calls
\* have returned, knowledge.json is what applying all of them in some serial
\* order to the graph they started from gives, so none is lost.
C12_GraphMutationsLinearize ==
    (\A k \in KThreads : kthr[k].pc # "loaded") =>
        \E f \in SerialOrders :
            kg = ApplyAll(kg0, [i \in DOMAIN f |-> kthr[f[i]].req])

\* h is g with o appended to E's observations and nothing else changed
ObservationAdded(g, h, E, o) ==
    /\ DOMAIN h.entities = DOMAIN g.entities
    /\ E \in DOMAIN g.entities
    /\ h.entities[E] = Append(g.entities[E], o)
    /\ Count(h.entities[E], o) = Count(g.entities[E], o) + 1
    /\ \A n \in (DOMAIN g.entities) \ {E} : h.entities[n] = g.entities[n]
    /\ h.relations = g.relations

\* C14: a successful add-observation of o to an existing entity E leaves o
\* in E's observation list exactly once more than before and every other
\* observation, entity and relation unchanged; on a missing entity it fails
\* and changes nothing.
C14_AddObservation ==
    [][\A k \in KThreads :
          (kthr[k].pc = "loaded" /\ kthr'[k].pc = "done"
             /\ kthr[k].req.op = "add_observation") =>
              IF kthr'[k].ret = "result"
              THEN ObservationAdded(kg, kg', kthr[k].req.a, kthr[k].req.obs[1])
              ELSE kg' = kg]_vars

(***************************************************************************)
(* Claims about failing and releasing a task                               *)
(***************************************************************************)
\* after is before with task n back to pending, its claim and its start
\* time cleared and the note appended to its earlier notes; every other
\* field of the task and every other task are as they were
BackToPendingWith(before, after, n, note) ==
    after = [before EXCEPT ![n].status = "pending",
                           ![n].claimed_by = NULL,
                           ![n].claimed_at = NULL,
                           ![n].started_at = NULL,
                           ![n].notes = Append(before[n].notes, note)]

\* C21: fail_task and release_task, called by the claimer of a claimed or
\* in-progress task, return the task and leave it pending with claimed_by,
\* claimed_at and started_at cleared and exactly one new note (the failure
\* or the release note) after its earlier notes, nothing else changed; a
\* claim_task by any instance then succeeds.
C21_FailAndReleaseReturnToPending ==
    \A n \in DOMAIN tasks :
        tasks[n].status \in {"claimed", "in-progress"} /\ tasks[n].claimed_by \in Instances =>
            LET failed == fail_task(tasks, tasks[n].id, tasks[n].claimed_by)
                released == release_task(tasks, tasks[n].id, tasks[n].claimed_by)
            IN /\ failed.ret = "task"
               /\ released.ret = "task"
               /\ BackToPendingWith(tasks, failed.tasks, n, "FAILED")
               /\ BackToPendingWith(tasks, released.tasks, n, "Released")
               /\ \A J \in Instances :
                     /\ claim_task(failed.tasks, tasks[n].id, J).ret = "task"
                     /\ claim_task(released.tasks, tasks[n].id, J).ret = "task"

\* an in-progress task was released by its claimer and is now claimed by
\* another instance, while a second task is in progress
C21_Witness ==
    \E n, m \in DOMAIN tasks :
        /\ n # m
        /\ tasks[n].notes = <<"Released">>
        /\ tasks[n].status = "claimed"
        /\ tasks[n].claimed_by = "i2"
        /\ tasks[m].status = "in-progress"
        /\ tasks[m].claimed_by = "i1"

(***************************************************************************)
(* Claims about the store files                                            *)
(***************************************************************************)
\* C22: whatever step a save of the task store or of the knowledge graph
\* has reached, and however it ended (returned, raised at the temp-file
\* write or at the rename, stopped with the process), the primary file
\* holds the complete document it held when the save began or the complete
\* new document, never a partial one; a save that raised left the prior one.
C22_SaveLeavesPriorOrNew ==
    \A s \in Stores :
        /\ disk[s].primary \in {sv[s].prior, sv[s].new}
        /\ disk[s].primary \notin Partial
        /\ sv[s].outcome = "raised" => disk[s].primary = sv[s].prior
        /\ sv[s].outcome = "saved" => disk[s].primary = sv[s].new

\* the process stopped while a save was writing the temp file of a store
\* that already held a document, and the backup copy had failed too
C22_Witness ==
    \E s \in Stores :
        /\ sv[s].outcome = "stopped"
        /\ disk[s].tmp \in Partial
        /\ disk[s].bak \in Partial
        /\ disk[s].primary = "d1"
        /\ sv[s].new = "d2"

\* what a load of the files f of store s gives
load(s, f) == IF s = "tasks" THEN load_tasks(f) ELSE load_knowledge(f)

\* C23: no load raised; a load that finds the primary unreadable or
\* unparsable does not raise and returns the backup's document, or the empty
\* store when the backup is missing, unreadable or unparsable too, and the
\* task store's load then renames the corrupt primary aside.
C23_LoadNeverRaises ==
    \A s \in Stores :
        /\ ~ld[s].raised
        /\ disk[s].primary \in Partial =>
              /\ ~load(s, disk[s]).raised
              /\ load(s, disk[s]).ret =
                     IF disk[s].bak \in Docs THEN disk[s].bak ELSE "empty"
              /\ (s = "tasks" /\ disk[s].bak \notin Docs) =>
                     load(s, disk[s]).files = replace(disk[s], "primary", "corrupt")

(***************************************************************************)
(* Claims about the instance registry                                      *)
(***************************************************************************)
\* the registered instances whose last heartbeat is older than the threshold
ExpiredIn(insts, t) ==
    { iid \in DOMAIN insts : t - insts[iid].last_heartbeat_ts > EXPIRY_SECONDS }

\* the registry each operation, called now for instance I, leaves
RegistryCalls(I) ==
    { heartbeat_record(records, now, I, <<>>).insts,
      check_conflicts(records, now, I, <<"a.py">>).insts,
      list_instances(records, now).insts,
      get_instance(records, now, I).insts,
      instance_count_records(records, now).insts,
      register_record(records, now, I, "bootstrapping").insts,
      deregister_record(records, I).insts }
    \cup { update_status(records, I, s, a, f).insts :
              s \in Optional(StatusChoices), a \in Optional(ActivityChoices),
              f \in Optional(FileLists) }

\* C24: every registry operation first removes the expired instances, so it
\* leaves none in the registry, and called for an expired instance
\* heartbeat, update_status and get_instance return nothing, deregister
\* reports no removal, and list_instances, check_conflicts and
\* instance_count leave the instance out.
C24_ExpiredPurgedFirst ==
    \A I \in Instances :
        /\ \A left \in RegistryCalls(I) : ExpiredIn(left, now) = {}
        /\ I \in ExpiredIn(records, now) =>
              /\ heartbeat_record(records, now, I, <<>>).ret = <<>>
              /\ get_instance(records, now, I).ret = <<>>
              /\ I \notin DOMAIN list_instances(records, now).ret
              /\ instance_count_records(records, now).ret =
                     Cardinality((DOMAIN records) \ ExpiredIn(records, now))
              /\ \A J \in Instances, f \in FileLists :
                     \A c \in DOMAIN check_conflicts(records, now, J, f).ret :
                         c.instance_id # I
              /\ \A s \in Optional(StatusChoices), a \in Optional(ActivityChoices),
                    f \in Optional(FileLists) :
                     update_status(records, I, s, a, f).ret = <<>>
              /\ deregister_record(records, I).ret = FALSE

\* C25: update_status on a registered instance changes the status, the
\* activity and the active files that were supplied and nothing else: the
\* instance's last heartbeat time and heartbeat count and every other
\* instance are as they were, the updated record is returned, and at every
\* later time the purge removes the same instances as without the update.
C25_UpdateStatusKeepsHeartbeat ==
    \A I \in DOMAIN records :
        \A s \in Optional(StatusChoices), a \in Optional(ActivityChoices),
           f \in Optional(FileLists) :
            LET r == update_status(records, I, s, a, f)
            IN /\ DOMAIN r.insts = DOMAIN records
               /\ \A J \in (DOMAIN records) \ {I} : r.insts[J] = records[J]
               /\ r.insts[I].last_heartbeat_ts = records[I].last_heartbeat_ts
               /\ r.insts[I].heartbeat_count = records[I].heartbeat_count
               /\ r.insts[I].status = IF s = <<>> THEN records[I].status ELSE s[1]
               /\ r.insts[I].activity = IF a = <<>> THEN records[I].activity ELSE a[1]
               /\ r.insts[I].active_files =
                      IF f = <<>> THEN records[I].active_files ELSE f[1]
               /\ r.ret = <<r.insts[I]>>
               /\ \A n \in {0} \cup ClockSteps \cup {TickSeconds} :
                      DOMAIN purge_expired_records(r.insts, now + n)
                          = DOMAIN purge_expired_records(records, now + n)

\* an instance that registered at time 0 and sent no heartbeat has had its
\* status, activity and files updated, and is expired all the same
C25_Witness ==
    \E I \in DOMAIN records :
        /\ records[I].status = "busy"
        /\ records[I].activity = "editing"
        /\ records[I].active_files # <<>>
        /\ records[I].heartbeat_count = 0
        /\ records[I].last_heartbeat_ts = 0
        /\ I \in ExpiredIn(records, now)

\* the pairs (f, J) check_conflicts(I, files) is to report
ConflictPairs(I, files) ==
    { p \in {"a.py", "b.py"} \X ((DOMAIN records) \ {I}) :
        /\ p[2] \notin ExpiredIn(records, now)
        /\ \E n \in DOMAIN files : files[n] = p[1]
        /\ \E n \in DOMAIN records[p[2]].active_files :
              records[p[2]].active_files[n] = p[1] }

\* C26: check_conflicts(I, files) returns exactly one record for every pair
\* (f, J) where J is a registered, non-expired instance other than I and f
\* is in files and in J's active files, with J's activity, and no other
\* record; the latest call did not report its caller.
C26_ConflictsExactly ==
    /\ \A I \in Instances, files \in FileLists :
          LET ret == check_conflicts(records, now, I, files).ret
          IN /\ { <<c.file, c.instance_id>> : c \in DOMAIN ret } = ConflictPairs(I, files)
             /\ Cardinality(DOMAIN ret) = Cardinality(ConflictPairs(I, files))
             /\ \A c \in DOMAIN ret :
                   /\ ret[c] = 1
                   /\ c.activity = records[c.instance_id].activity
    /\ \A c \in DOMAIN found.ret : c.instance_id # found.instance_id

\* a call that listed a.py twice found it once, in the active files of the
\* only other instance
C26_Witness ==
    /\ found.files = <<"b.py", "a.py", "a.py">>
    /\ found.instance_id = "i2"
    /\ DOMAIN found.ret = {[file |-> "a.py", instance_id |-> "i1", activity |-> "editing"]}
    /\ DOMAIN records = {"i1", "i2"}

C28_ClaimAllConcurrently ==
    \A a, b \in AgentIds :
        ( /\ a # b
          /\ cath[a].pc = "done" /\ cath[b].pc = "done"
          /\ cath[a].scope = cath[b].scope
          /\ cath[a].known /\ cath[b].known ) =>
            /\ ~cath[a].raised /\ ~cath[b].raised
            /\ cath[a].claimed \cap cath[b].claimed = {}
            /\ \A h \in cath[a].listed \cup cath[b].listed :
                  /\ handoffs[h].claimed_by \in {a, b}
                  /\ handoffs[h].claimed_by = a <=> h \in cath[a].claimed
                  /\ handoffs[h].claimed_by = b <=> h \in cath[b].claimed

\* both agents listed the same two handoffs and each got one of them
C28_Witness ==
    /\ cath["a1"].pc = "done" /\ cath["a2"].pc = "done"
    /\ cath["a1"].scope = ScopeW /\ cath["a2"].scope = ScopeW
    /\ cath["a1"].listed = {1, 2} /\ cath["a2"].listed = {1, 2}
    /\ cath["a1"].claimed = {1}
    /\ cath["a2"].claimed = {2}

C30_PreviewReadsBootstrapClaims ==
    \A w \in HandoffScopes :
        LET shown == preview_context(handoffs, w)
            unclaimed == get_unclaimed_handoffs(handoffs, w)
        IN /\ shown.handoffs = handoffs
           /\ shown.ret = unclaimed
           /\ get_unclaimed_handoffs(shown.handoffs, w) = shown.ret
           /\ \A a \in agents :
                 LET boot == bootstrap_context(handoffs, agents, w, a, now)
                 IN /\ ~boot.raised
                    /\ boot.ret = unclaimed
                    /\ DOMAIN boot.handoffs = DOMAIN handoffs
                    /\ \A h \in DOMAIN handoffs :
                          IF h \in unclaimed
                          THEN boot.handoffs[h] =
                                   [handoffs[h] EXCEPT !.claimed_by = a, !.claimed_at = <<now>>]
                          ELSE boot.handoffs[h] = handoffs[h]

\* a preview showed a handoff that is still unclaimed, after an agent had
\* claimed the one that was there before
C30_Witness ==
    /\ pv.ret = {2}
    /\ handoffs[2].claimed_by = NULL
    /\ handoffs[1].claimed_by = "a1"
    /\ cath["a1"].pc = "done"
    /\ cath["a1"].claimed = {1}

(***************************************************************************)
(* The tool protocol (mcp_transport.py).  A request object is a record of  *)
(* method, id (<<>> when absent or null), tool name and what the tool      *)
(* handler does when called; a response object carries the id, and either  *)
(* a result or an error code.                                              *)
(***************************************************************************)
Request(method, id, name, outcome) ==
    [method |-> method, id |-> id, name |-> name, outcome |-> outcome]

ResultOf(req_id, result, isError) ==
    [id |-> req_id, kind |-> "result", result |-> result, isError |-> isError, code |-> 0]

ErrorOf(req_id, code) ==
    [id |-> req_id, kind |-> "error", result |-> "", isError |-> FALSE, code |-> code]

\* _TOOL_MAP.get(tool_name)
TOOL_MAP == {"howell_query"}

process_jsonrpc_no_method_check(request) ==
    LET req_id == request.id
    IN IF req_id = <<>> THEN <<>>
       ELSE <<ResultOf(req_id[1], request.method, FALSE)>>

\* the response object, as <<response>>, or <<>> for None
process_jsonrpc(request) ==
    LET req_id == request.id
    IN IF req_id = <<>> THEN <<>>
       ELSE IF request.method = "initialize" THEN <<ResultOf(req_id[1], "serverInfo", FALSE)>>
       ELSE IF request.method = "tools/list" THEN <<ResultOf(req_id[1], "tools", FALSE)>>
       ELSE IF request.method = "tools/call" THEN
            IF request.name \notin TOOL_MAP
            THEN <<ResultOf(req_id[1], "Unknown tool", TRUE)>>
            ELSE IF request.outcome = "raises"
            THEN <<ResultOf(req_id[1], "exception", TRUE)>>
            ELSE <<ResultOf(req_id[1], "content", request.outcome = "error")>>
       ELSE IF request.method = "ping" THEN <<ResultOf(req_id[1], "", FALSE)>>
       ELSE <<ErrorOf(req_id[1], -32601)>>

(***************************************************************************)
(* The SSE transport: GET /mcp opens a stream with a fresh session id and  *)
(* an event queue; POST /mcp/message?sessionId= puts the response on the   *)
(* queue of that session.  Each request thread runs its handler step by    *)
(* step; _session_lock is held for the lookup, insert and removal only.    *)
(***************************************************************************)
NotTheServices == <<taskVars, raceVars, regVars, now, hoVars, agVars, kgVars, scVars, relVars,
                    fsVars, recVars, bootVars, endVars>>
NotTheSse == <<inserted, tu, plans, athr, qp, posts, health, wd, held, lthr, nruns, lastreq, NotTheServices>>

\* _handle_sse up to the loop: the session is put in the map, the endpoint event is sent
sse_connect(session_id) ==
    /\ sse[session_id].pc = "none"
    /\ sessions' = sessions \cup {session_id}
    /\ sse' = [sse EXCEPT ![session_id].pc = "open"]
    /\ UNCHANGED <<mthr, rpc, http, NotTheSse>>

\* one turn of the loop: an event is taken from the queue and written as a message event
sse_emit(session_id) ==
    /\ sse[session_id].pc = "open"
    /\ sse[session_id].queue # <<>>
    /\ sse' = [sse EXCEPT ![session_id].queue = Tail(@),
                          ![session_id].out = Append(@, Head(sse[session_id].queue))]
    /\ UNCHANGED <<sessions, mthr, rpc, http, NotTheSse>>

\* the client goes away; the handler learns of it at its next write
client_disconnects(session_id) ==
    /\ sse[session_id].pc = "open"
    /\ sse' = [sse EXCEPT ![session_id].pc = "broken"]
    /\ UNCHANGED <<sessions, mthr, rpc, http, NotTheSse>>

\* the write of the next event, or of the keepalive, raises; finally: the session is popped
sse_close(session_id) ==
    /\ sse[session_id].pc = "broken"
    /\ sse' = [sse EXCEPT ![session_id].pc = "closed",
                          ![session_id].queue = IF @ = <<>> THEN @ ELSE Tail(@)]
    /\ sessions' = sessions \ {session_id}
    /\ UNCHANGED <<mthr, rpc, http, NotTheSse>>

\* _handle_message: the lookup under _session_lock; 404 when the session is not in the map
msg_lookup(m, session_id, body) ==
    /\ mthr[m].pc = "idle"
    /\ Len(rpc.posted) < MaxRpc
    /\ body.id \in {<<>>, <<Len(rpc.posted) + 1>>}
    /\ rpc' = [rpc EXCEPT !.posted = Append(@, session_id)]
    /\ mthr' = [mthr EXCEPT ![m] =
            IF session_id \in sessions
            THEN [pc |-> "process", session_id |-> session_id, body |-> body,
                  response |-> <<>>, status |-> 0]
            ELSE [IdleMessage EXCEPT !.status = 404]]
    /\ UNCHANGED <<sessions, sse, http, NotTheSse>>

\* response = _process_jsonrpc(body)
msg_process(m) ==
    /\ mthr[m].pc = "process"
    /\ mthr' = [mthr EXCEPT ![m].pc = "put", ![m].response = process_jsonrpc(mthr[m].body)]
    /\ rpc' = [rpc EXCEPT !.order = IF mthr[m].body.id = <<>> THEN @
                                     ELSE Append(@, mthr[m].body.id[1])]
    /\ UNCHANGED <<sessions, sse, http, NotTheSse>>

\* event_queue.put(response) unless it is None, then 202 Accepted
msg_put(m) ==
    /\ mthr[m].pc = "put"
    /\ sse' = [sse EXCEPT ![mthr[m].session_id].queue =
                    IF mthr[m].response = <<>> THEN @ ELSE Append(@, mthr[m].response[1])]
    /\ rpc' = [rpc EXCEPT !.accepted = IF mthr[m].body.id = <<>> THEN @
                                        ELSE @ \cup {mthr[m].body.id[1]}]
    /\ mthr' = [mthr EXCEPT ![m] = [IdleMessage EXCEPT !.status = 202]]
    /\ UNCHANGED <<sessions, http, NotTheSse>>

SseBodies ==
    { Request(method, id, "howell_query", "value") :
        method \in {"ping", "resources/list"}, id \in Optional(1..MaxRpc) }

NextSse ==
    \/ \E s \in SessionIds : sse_connect(s)
    \/ \E s \in SessionIds : sse_emit(s)
    \/ \E s \in SessionIds : client_disconnects(s)
    \/ \E s \in SessionIds : sse_close(s)
    \/ \E m \in MThreads, s \in SessionIds, body \in SseBodies : msg_lookup(m, s, body)
    \/ \E m \in MThreads : msg_process(m)
    \/ \E m \in MThreads : msg_put(m)

SpecSse == Init /\ [][NextSse]_vars

\* the ids of the message events written on a stream, in the order written
RECURSIVE IdsOf(_)
IdsOf(events) ==
    IF events = <<>> THEN <<>> ELSE <<Head(events).id>> \o IdsOf(Tail(events))

PositionIn(seq, x) == CHOOSE i \in 1..Len(seq) : seq[i] = x

\* no message event is on the stream of a session the request was not posted to
OnOwnStream ==
    \A s \in SessionIds : \A i \in 1..Len(sse[s].out) : rpc.posted[sse[s].out[i].id] = s

\* the message events of a stream are in the order the requests were processed
InProcessedOrder ==
    \A s \in SessionIds : \A i, j \in 1..Len(sse[s].out) :
        i < j => PositionIn(rpc.order, sse[s].out[i].id) < PositionIn(rpc.order, sse[s].out[j].id)

\* the response of a request answered 202 is written, or waits on a stream still served
AcceptedNotLost ==
    \A id \in rpc.accepted :
        LET s == rpc.posted[id]
        IN \/ \E i \in 1..Len(sse[s].out) : sse[s].out[i].id = id
           \/ /\ sse[s].pc # "closed"
              /\ \E i \in 1..Len(sse[s].queue) : sse[s].queue[i].id = id

\* a closed stream's session is out of the session map
ClosedIsPurged ==
    \A s \in SessionIds : sse[s].pc = "closed" => s \notin sessions

\* C31 : every request with an id that was POSTed to a session's message
\* endpoint and answered 202 has its response written as a message event on
\* that session's stream, the message events of a stream are in the order the
\* requests were processed, none is on another session's stream, and once the
\* stream has closed the session is out of the session map.
C31_AcceptedResponsesEmittedInOrder ==
    /\ OnOwnStream
    /\ InProcessedOrder
    /\ AcceptedNotLost
    /\ ClosedIsPurged

(***************************************************************************)
(* The Streamable HTTP transport: POST /mcp carries one request object or  *)
(* a batch array and the response objects come back in the reply.          *)
(***************************************************************************)
RECURSIVE responses_of(_)
responses_of(reqs) ==
    IF reqs = <<>> THEN <<>>
    ELSE process_jsonrpc(Head(reqs)) \o responses_of(Tail(reqs))

\* the status and the response objects of the reply; 202 has no body
handle_streamable_http(body) ==
    IF body.batch
    THEN IF responses_of(body.reqs) = <<>>
         THEN [status |-> 202, responses |-> <<>>]
         ELSE [status |-> 200, responses |-> responses_of(body.reqs)]
    ELSE IF process_jsonrpc(body.reqs[1]) = <<>>
         THEN [status |-> 202, responses |-> <<>>]
         ELSE [status |-> 200, responses |-> process_jsonrpc(body.reqs[1])]

call_streamable_http(body) ==
    /\ http' = [body |-> body,
                status |-> handle_streamable_http(body).status,
                responses |-> handle_streamable_http(body).responses]
    /\ UNCHANGED <<sessions, sse, mthr, rpc, NotTheSse>>

\* the tool name and the handler's outcome matter to tools/call only
HttpRequests ==
    { Request(method, id, "howell_query", "value") :
        method \in Methods \ {"tools/call"}, id \in Optional(1..MaxBatch) }
    \cup { Request("tools/call", id, "no_such_tool", "value") : id \in Optional(1..MaxBatch) }
    \cup { Request("tools/call", id, "howell_query", outcome) :
            id \in Optional(1..MaxBatch), outcome \in ToolOutcomes }

HttpBodies ==
    { [batch |-> FALSE, reqs |-> <<r>>] : r \in HttpRequests }
    \cup { [batch |-> TRUE, reqs |-> reqs] :
            reqs \in UNION { [1..n -> HttpRequests] : n \in 0..MaxBatch } }

NextHttp == \E body \in HttpBodies : call_streamable_http(body)

SpecHttp == Init /\ [][NextHttp]_vars

\* the request objects of a body that carry an id, in the order sent
RECURSIVE WithId(_)
WithId(reqs) ==
    IF reqs = <<>> THEN <<>>
    ELSE (IF Head(reqs).id = <<>> THEN <<>> ELSE <<Head(reqs)>>) \o WithId(Tail(reqs))

KnownMethods == {"initialize", "tools/list", "tools/call", "ping"}

NotTheWatchdog == <<inserted, tu, plans, athr, qp, posts, sessions, sse, mthr, rpc, http, held, lthr, nruns, lastreq, NotTheServices>>

\* _thread_health[name] = {"alive": True, "restarts": 0, "last_error": None}
wd_enter(name) ==
    /\ wd[name].pc = "entry"
    /\ health' = [health EXCEPT ![name] = [alive |-> TRUE, restarts |-> 0, last_error |-> <<>>]]
    /\ wd' = [wd EXCEPT ![name].pc = "loop"]
    /\ UNCHANGED NotTheWatchdog

\* the head of the loop: alive is set and target() is called
wd_invoke(name) ==
    /\ wd[name].pc = "loop"
    /\ health' = [health EXCEPT ![name].alive = TRUE]
    /\ wd' = [wd EXCEPT ![name].pc = "target"]
    /\ UNCHANGED NotTheWatchdog

worker_raises_uncounted(name, e) ==
    /\ wd[name].pc = "target"
    /\ wd[name].stopped < MaxStops
    /\ health' = [health EXCEPT ![name].alive = FALSE, ![name].last_error = <<e>>]
    /\ wd' = [wd EXCEPT ![name].pc = "sleep", ![name].stopped = @ + 1, ![name].raised = @ + 1]
    /\ UNCHANGED NotTheWatchdog

\* target() raises e: the except clause counts it, records it and goes to sleep
worker_raises(name, e) ==
    /\ wd[name].pc = "target"
    /\ wd[name].stopped < MaxStops
    /\ health' = [health EXCEPT ![name].restarts = @ + 1,
                                ![name].alive = FALSE,
                                ![name].last_error = <<e>>]
    /\ wd' = [wd EXCEPT ![name].pc = "sleep", ![name].stopped = @ + 1, ![name].raised = @ + 1]
    /\ UNCHANGED NotTheWatchdog

\* target() returns: no clause of the try runs, the loop goes round
worker_returns(name) ==
    /\ wd[name].pc = "target"
    /\ wd[name].stopped < MaxStops
    /\ wd' = [wd EXCEPT ![name].pc = "loop", ![name].stopped = @ + 1]
    /\ UNCHANGED <<health, NotTheWatchdog>>

\* time.sleep(restart_delay) is over
wd_wake(name) ==
    /\ wd[name].pc = "sleep"
    /\ wd' = [wd EXCEPT ![name].pc = "loop", ![name].waited = @ + 1]
    /\ UNCHANGED <<health, NotTheWatchdog>>

NextWatchdog ==
    \/ \E w \in Workers : wd_enter(w)
    \/ \E w \in Workers : wd_invoke(w)
    \/ \E w \in Workers, e \in Errors : worker_raises(w, e)
    \/ \E w \in Workers : worker_returns(w)
    \/ \E w \in Workers : wd_wake(w)

SpecWatchdog == Init /\ [][NextWatchdog]_vars

NotTheLocks == <<inserted, tu, plans, athr, qp, posts, sessions, sse, mthr, rpc, http, health, wd, lastreq, NotTheServices>>

acquire(l) == [op |-> "acquire", lock |-> l]
release(l) == [op |-> "release", lock |-> l]
\* with l: a body that takes no other mutex
with(l) == <<acquire(l), release(l)>>

\* list_agents() inside the with-block instead of before it
get_agent_context_in_lock ==
    <<acquire("agent_db")>> \o with("agent_db") \o <<release("agent_db")>>

\* list_agents(), then the notes of each agent under _lock
get_agent_context == with("agent_db") \o with("agent_db")

\* the whole body is under _io_lock
log_session == with("howell_bridge")

\* get_available_tasks(), list_tasks(), task_summary(): one after the other
tasks_for_bootstrap == with("task_queue") \o with("task_queue") \o with("task_queue")

\* release_all_for_instance, deregister, instance_count, log_session
handle_instance_deregister ==
    with("task_queue") \o with("instance_registry") \o with("instance_registry") \o log_session

\* one round of _background_heartbeat: run_heartbeat() takes no mutex, then log_session
background_heartbeat == log_session

Handlers ==
    {get_agent_context, log_session, tasks_for_bootstrap, handle_instance_deregister,
     background_heartbeat}

\* a request arrives, or a worker's timer fires
handler_begins(t, h) ==
    /\ lthr[t] = <<>>
    /\ nruns < MaxRuns
    /\ lthr' = [lthr EXCEPT ![t] = h]
    /\ nruns' = nruns + 1
    /\ UNCHANGED <<held, NotTheLocks>>

\* Lock.acquire(): the thread goes on when nobody holds the mutex, itself included
lock_acquire(t) ==
    /\ lthr[t] # <<>>
    /\ Head(lthr[t]).op = "acquire"
    /\ held[Head(lthr[t]).lock] = NULL
    /\ held' = [held EXCEPT ![Head(lthr[t]).lock] = t]
    /\ lthr' = [lthr EXCEPT ![t] = Tail(@)]
    /\ UNCHANGED <<nruns, NotTheLocks>>

\* the end of the with-block
lock_release(t) ==
    /\ lthr[t] # <<>>
    /\ Head(lthr[t]).op = "release"
    /\ held' = [held EXCEPT ![Head(lthr[t]).lock] = NULL]
    /\ lthr' = [lthr EXCEPT ![t] = Tail(@)]
    /\ UNCHANGED <<nruns, NotTheLocks>>

NextLocks ==
    \/ \E t \in LThreads, h \in Handlers : handler_begins(t, h)
    \/ \E t \in LThreads : lock_acquire(t)
    \/ \E t \in LThreads : lock_release(t)

\* a thread that can go on does go on
SpecLocks ==
    Init /\ [][NextLocks]_vars
         /\ \A t \in LThreads : WF_vars(lock_acquire(t)) /\ WF_vars(lock_release(t))

Holds(t) == { l \in StoreLocks : held[l] = t }
Wants(t) == lthr[t] # <<>> /\ Head(lthr[t]).op = "acquire"
Blocked(t) == Wants(t) /\ held[Head(lthr[t]).lock] # NULL

\* no thread asks for a store mutex while it holds one
NoWaitWhileHolding == \A t \in LThreads : Wants(t) => Holds(t) = {}

\* no set of threads in which each waits for a mutex one of them holds
NoDeadlock ==
    \A T \in SUBSET LThreads :
        T # {} => ~ \A t \in T : Blocked(t) /\ held[Head(lthr[t]).lock] \in T

\* C34 : no handler or worker asks for a store mutex while it holds a store
\* mutex, no set of threads is deadlocked, and every handler that was started
\* gets each mutex it asks for and runs to its end.
C34_EveryAcquisitionSucceeds ==
    /\ [](NoWaitWhileHolding /\ NoDeadlock)
    /\ \A t \in LThreads : (lthr[t] # <<>>) ~> (lthr[t] = <<>>)

C34_Witness ==
    /\ Blocked("t1")
    /\ Blocked("t2")
    /\ held["task_queue"] = "t3"
    /\ lthr["t3"] = <<release("task_queue")>> \o with("instance_registry")
                        \o with("instance_registry") \o log_session

(***************************************************************************)
(* Authentication (howell_daemon._check_auth, do_GET, do_POST).  A path    *)
(* and a header value are sequences of pieces of text; "" is <<>>.         *)
(***************************************************************************)
NotTheAuth == <<inserted, tu, plans, athr, qp, posts, sessions, sse, mthr, rpc, http, health, wd, held, lthr, nruns, NotTheServices>>

PUBLIC_ROUTES ==
    {<<"/">>, <<"/", "dashboard">>, <<"/", "graph">>, <<"/", "explorer">>, <<"/", "favicon.ico">>,
     <<"/", "webhook", "/", "github">>, <<"/", "status">>, <<"/", "knowledge">>, <<"/", "pinned">>,
     <<"/", "recent">>, <<"/", "summary">>, <<"/", "search">>, <<"/", "identity", "/", "soul">>,
     <<"/", "health">>, <<"/", "brain">>}

CoordinationPrefixes ==
    {<<"/", "instance">>, <<"/", "tasks">>, <<"/", "agents">>, <<"/", "handoffs">>}

\* str.replace("Bearer ", "")
without_bearer(authorization) == SelectSeq(authorization, LAMBDA piece : piece # "Bearer ")

check_auth(path, x_api_key, authorization, key) ==
    LET p == IF rstrip_slash(path) = <<>> THEN <<"/">> ELSE rstrip_slash(path)
        auth == IF x_api_key # <<>> THEN x_api_key ELSE without_bearer(authorization)
    IN IF p \in PUBLIC_ROUTES THEN TRUE
       ELSE IF \E prefix \in CoordinationPrefixes : startswith(p, prefix) THEN TRUE
       ELSE IF auth = API_KEY THEN TRUE
       ELSE IF key = API_KEY THEN TRUE
       ELSE FALSE

\* _route_get and _route_post, for the paths of the explored runs
route(method, path) ==
    LET p == rstrip_slash(path)
    IN IF method = "GET" /\ p = <<"/", "status">> THEN "_handle_status"
       ELSE IF method = "GET" /\ p = <<"/", "inbox">> THEN "_handle_inbox"
       ELSE IF method = "GET" /\ p = <<"/", "instance", "s">> THEN "_handle_instances"
       ELSE IF method = "POST" /\ p = <<"/", "feed">> THEN "_handle_feed"
       ELSE IF method = "POST" /\ p = <<"/", "note">> THEN "_handle_note"
       ELSE IF method = "POST" /\ p = <<"/", "tasks", "/", "claim">> THEN "_handle_task_claim"
       ELSE "not found"

\* do_GET, do_POST: 401 and return unless _check_auth, else the route's handler
do_request(method, path, x_api_key, authorization, key) ==
    /\ lastreq' = [method |-> method, path |-> path, x_api_key |-> x_api_key,
               authorization |-> authorization, key |-> key,
               status |-> IF ~check_auth(path, x_api_key, authorization, key) THEN 401
                          ELSE IF route(method, path) = "not found" THEN 404 ELSE 200,
               handler |-> IF check_auth(path, x_api_key, authorization, key)
                           THEN route(method, path) ELSE "none"]
    /\ UNCHANGED NotTheAuth

RequestPaths ==
    {<<"/", "status">>, <<"/", "status", "/">>, <<"/", "inbox">>, <<"/", "instance", "s">>,
     <<"/", "feed">>, <<"/", "note", "/">>, <<"/", "tasks", "/", "claim">>}

Secrets == {<<>>, API_KEY, WrongKey}

NextAuth ==
    \E method \in {"GET", "POST"}, path \in RequestPaths, x_api_key \in Secrets,
       authorization \in {<<>>, <<"Bearer ">> \o API_KEY, <<"Bearer ">> \o WrongKey},
       key \in Secrets :
        do_request(method, path, x_api_key, authorization, key)

SpecAuth == Init /\ [][NextAuth]_vars

\* the path is neither public nor under a coordination prefix
Private(path) ==
    /\ rstrip_slash(path) \notin PUBLIC_ROUTES
    /\ ~ \E prefix \in CoordinationPrefixes : startswith(rstrip_slash(path), prefix)

\* the secret is in X-API-Key, in Authorization: Bearer, or in the key parameter
CarriesSecret(r) ==
    \/ r.x_api_key = API_KEY
    \/ r.authorization = <<"Bearer ">> \o API_KEY
    \/ r.key = API_KEY

\* the two halves of the statement
NoSecretNoHandler ==
    lastreq.path # <<>> /\ Private(lastreq.path) /\ ~CarriesSecret(lastreq)
        => lastreq.status = 401 /\ lastreq.handler = "none"

SecretAuthorises == CarriesSecret(lastreq) => lastreq.status # 401

\* C35 : a GET or POST to a private path that carries the secret in none of
\* the three places is answered 401 and reaches no handler; a request that
\* carries the secret in any one of the three places is not answered 401.
C35_SecretInAnyPlaceAuthorises ==
    /\ NoSecretNoHandler
    /\ SecretAuthorises

(***************************************************************************)
(* The generation queue (generation_queue.py).  A plan is a JSON file that *)
(* is read, changed in memory and written back; no mutex guards the files, *)
(* so approve and the queue processor run step by step.                    *)
(***************************************************************************)
NotTheQueue == <<inserted, tu, sessions, sse, mthr, rpc, http, health, wd, held, lthr, nruns, lastreq,
                 NotTheServices>>

\* submit(): a new file with status pending
submit ==
    /\ Len(plans) < MaxPlans
    /\ plans' = Append(plans, [status |-> "pending", error |-> <<>>, output_path |-> <<>>])
    /\ UNCHANGED <<athr, qp, posts, NotTheQueue>>

\* approve(plan_id): the file is read; None is returned unless it is pending
approve_read(a, plan_id) ==
    /\ athr[a].pc = "idle"
    /\ plan_id \in DOMAIN plans
    /\ athr' = [athr EXCEPT ![a] =
            IF plans[plan_id].status = "pending"
            THEN [pc |-> "write", plan_id |-> plan_id, plan |-> <<plans[plan_id]>>]
            ELSE IdleApprove]
    /\ UNCHANGED <<plans, qp, posts, NotTheQueue>>

\* plan["status"] = "approved"; f.write_text(...)
approve_write(a) ==
    /\ athr[a].pc = "write"
    /\ plans' = [plans EXCEPT ![athr[a].plan_id] = [athr[a].plan[1] EXCEPT !.status = "approved"]]
    /\ athr' = [athr EXCEPT ![a] = IdleApprove]
    /\ UNCHANGED <<qp, posts, NotTheQueue>>

\* the processor reads a file and finds the plan approved
qp_read(plan_id) ==
    /\ qp.pc = "sleep"
    /\ plan_id \in DOMAIN plans
    /\ plans[plan_id].status = "approved"
    /\ qp' = [pc |-> "mark", plan_id |-> plan_id, plan |-> <<plans[plan_id]>>,
              read |-> plans[plan_id].status]
    /\ UNCHANGED <<plans, athr, posts, NotTheQueue>>

\* plan["status"] = "running"; f.write_text(...)
qp_mark ==
    /\ qp.pc = "mark"
    /\ plans' = [plans EXCEPT ![qp.plan_id] = [qp.plan[1] EXCEPT !.status = "running"]]
    /\ qp' = [qp EXCEPT !.pc = "post", !.plan = <<[qp.plan[1] EXCEPT !.status = "running"]>>]
    /\ UNCHANGED <<athr, posts, NotTheQueue>>

\* _execute: the POST to the renderer is answered
qp_post ==
    /\ qp.pc = "post"
    /\ qp' = [qp EXCEPT !.pc = "poll"]
    /\ posts' = posts \cup {[plan_id |-> qp.plan_id, read |-> qp.read]}
    /\ UNCHANGED <<plans, athr, NotTheQueue>>

\* _execute: urlopen raises; the except clause records the plan as failed
qp_post_fails(e) ==
    /\ qp.pc = "post"
    /\ plans' = [plans EXCEPT ![qp.plan_id] =
                    [qp.plan[1] EXCEPT !.status = "failed", !.error = <<e>>]]
    /\ qp' = IdleProcessor
    /\ posts' = posts \cup {[plan_id |-> qp.plan_id, read |-> qp.read]}
    /\ UNCHANGED <<athr, NotTheQueue>>

\* _execute: the history names an image
qp_poll_done ==
    /\ qp.pc = "poll"
    /\ plans' = [plans EXCEPT ![qp.plan_id] =
                    [qp.plan[1] EXCEPT !.status = "completed", !.output_path = <<"out.png">>]]
    /\ qp' = IdleProcessor
    /\ UNCHANGED <<athr, posts, NotTheQueue>>

\* _execute: the deadline passes
qp_poll_timeout ==
    /\ qp.pc = "poll"
    /\ plans' = [plans EXCEPT ![qp.plan_id] =
                    [qp.plan[1] EXCEPT !.status = "failed", !.error = <<TimeoutError>>]]
    /\ qp' = IdleProcessor
    /\ UNCHANGED <<athr, posts, NotTheQueue>>

NextQueue ==
    \/ submit
    \/ \E a \in Approvers, p \in 1..MaxPlans : approve_read(a, p)
    \/ \E a \in Approvers : approve_write(a)
    \/ \E p \in 1..MaxPlans : qp_read(p)
    \/ qp_mark
    \/ qp_post
    \/ \E e \in TransportErrors : qp_post_fails(e)
    \/ qp_poll_done
    \/ qp_poll_timeout

SpecQueue == Init /\ [][NextQueue]_vars

\* the moves of a plan's status
Lifecycle ==
    {<<"pending", "approved">>, <<"approved", "running">>,
     <<"running", "completed">>, <<"running", "failed">>}

\* only plans read as approved are POSTed to the renderer
OnlyApprovedPosted == \A p \in posts : p.read = "approved"

\* a failed plan has its error string
FailedHasError == \A i \in DOMAIN plans : plans[i].status = "failed" => plans[i].error # <<>>

\* C36 : a plan is POSTed to the renderer only when it was read as approved, a
\* plan becomes approved only from pending, its status only moves pending to
\* approved to running to completed or failed, and a plan that a transport
\* error or the poll deadline has ended is failed with the error string kept.
C36_StatusMovesForward ==
    /\ []OnlyApprovedPosted
    /\ []FailedHasError
    /\ [][\A i \in DOMAIN plans :
            plans'[i].status # plans[i].status
                => <<plans[i].status, plans'[i].status>> \in Lifecycle]_vars

\* C37 : in the deregister request handler for instance I the task-store
\* release runs when I is already out of the registry, and when the handler
\* finishes no task is claimed by I.
C37_RegistryRemovalBeforeRelease ==
    [][\A i \in Instances :
        /\ dereg[i] = "release" /\ dereg'[i] = "deregister" => i \notin DOMAIN instances
        /\ dereg[i] = "count" /\ dereg'[i] = "idle"
            => \A t \in DOMAIN tasks' : tasks'[t].claimed_by # i]_vars

\* the second half of the statement, alone
NoneClaimedAtFinish ==
    [][\A i \in Instances :
        dereg[i] = "count" /\ dereg'[i] = "idle"
            => \A t \in DOMAIN tasks' : tasks'[t].claimed_by # i]_vars

\* C38 : in every graph the add-entity, add-relation, delete-entity,
\* rename-entity and merge-entities tools leave, both endpoints of every
\* relation name an entity of the graph.
C38_RelationEndpointsExist ==
    \A i \in DOMAIN kg.relations :
        /\ kg.relations[i][1] \in DOMAIN kg.entities
        /\ kg.relations[i][3] \in DOMAIN kg.entities

\* every dependency of the task with this id is completed
DependencySatisfied(ts, task_id) ==
    \E i \in DOMAIN ts : ts[i].id = task_id /\ ts[i].dependencies \subseteq completed_ids(ts)

\* the dependencies of the task with this id
DependenciesOf(ts, task_id) ==
    UNION { ts[i].dependencies : i \in { j \in DOMAIN ts : ts[j].id = task_id } }

\* C39 : a task whose dependencies are all completed still has them all
\* completed after any task-store call that leaves the task and its list of
\* dependencies as they were.
C39_StaysDependencySatisfied ==
    [][\A t \in TaskIds :
        /\ DependencySatisfied(tasks, t)
        /\ t \in Ids(tasks')
        /\ DependenciesOf(tasks', t) = DependenciesOf(tasks, t)
        => DependencySatisfied(tasks', t)]_vars

(***************************************************************************)
(* The task tools of the tool protocol (mcp_transport._tool_task_claim,    *)
(* _tool_task_update).  Neither takes an instance id: both use the first   *)
(* record list_instances() returns, and "mcp-client" when there is none.   *)
(***************************************************************************)
NotTheTools == <<nextId, raceVars, instances, dereg, hoVars, agVars, kgVars, scVars, relVars,
                 fsVars, found, bootVars, endVars,
                 sessions, sse, mthr, rpc, http, health, wd, held, lthr, nruns, lastreq,
                 plans, athr, qp, posts>>

\* list(_instances.values()) after the purge: the live records in insertion order
live_ids(insts, t, order) ==
    SelectSeq(order, LAMBDA i : i \in DOMAIN purge_expired_records(insts, t))

\* instances[0]["id"] if instances else "mcp-client"
tool_instance_id(insts, t, order) ==
    IF live_ids(insts, t, order) # <<>> THEN Head(live_ids(insts, t, order)) ELSE "mcp-client"

\* a client registers: register(), and the dict gets its new key last
client_registers(instance_id) ==
    /\ instance_id \notin issued
    /\ issued' = issued \cup {instance_id}
    /\ records' = register_record(records, now, instance_id, "bootstrapping").insts
    /\ inserted' = Append(inserted, instance_id)
    /\ UNCHANGED <<tasks, now, tu, NotTheTools>>

client_deregisters(instance_id) ==
    /\ records' = deregister_record(records, instance_id).insts
    /\ UNCHANGED <<tasks, issued, now, inserted, tu, NotTheTools>>

clock_advances(n) ==
    /\ now + n <= MaxClock * TickSeconds
    /\ now' = now + n
    /\ UNCHANGED <<tasks, issued, records, inserted, tu, NotTheTools>>

tool_task_create(scope, priority) ==
    /\ nextId <= MaxTasks
    /\ tasks' = create_task(tasks, nextId, scope, priority, {}).tasks
    /\ nextId' = nextId + 1
    /\ UNCHANGED <<raceVars, regVars, now, hoVars, extVars>>

\* _tool_task_claim
tool_task_claim(task_id) ==
    /\ records' = list_instances(records, now).insts
    /\ tasks' = claim_task(tasks, task_id,
                           tool_instance_id(records, now, inserted)).tasks
    /\ UNCHANGED <<issued, now, inserted, tu, NotTheTools>>

\* what the task-store call of an action returns
task_update(ts, action, task_id, instance_id) ==
    CASE action = "start" -> start_task(ts, task_id, instance_id)
      [] action = "note" -> add_task_note(ts, task_id, instance_id)
      [] action = "complete" -> complete_task(ts, task_id, instance_id)
      [] action = "fail" -> fail_task(ts, task_id, instance_id)
      [] OTHER -> release_task(ts, task_id, instance_id)

\* the instance that holds the task: its claimed_by while claimed or in-progress
HolderOf(ts, task_id) ==
    IF \E i \in DOMAIN ts : ts[i].id = task_id /\ ts[i].status \in Active
    THEN (CHOOSE r \in Elems(ts) : r.id = task_id).claimed_by
    ELSE NULL

\* _tool_task_update
tool_task_update(task_id, action) ==
    /\ action = "start" \/ NoteRoom
    /\ records' = list_instances(records, now).insts
    /\ LET instance_id == tool_instance_id(records, now, inserted)
           out == task_update(tasks, action, task_id, instance_id)
       IN /\ tasks' = out.tasks
          /\ tu' = [task_id |-> task_id, action |-> action, holder |-> HolderOf(tasks, task_id),
                    instance_id |-> instance_id, ok |-> out.tasks # tasks]
    /\ UNCHANGED <<issued, now, inserted, NotTheTools>>

NextTools ==
    \/ \E i \in Instances : client_registers(i)
    \/ \E i \in Instances : client_deregisters(i)
    \/ clock_advances(TickSeconds)
    \/ \E p \in PriorityChoices : tool_task_create(mkScope({}, <<>>, {"ui"}), p)
    \/ \E t \in TaskIds : tool_task_claim(t)
    \/ \E t \in TaskIds, a \in UpdateActions : tool_task_update(t, a)

SpecTools == Init /\ [][NextTools]_vars

\* C40 : a howell_task_update on a task that is claimed or in-progress (every
\* claim here is made through howell_task_claim) uses the instance id the
\* claim used, whatever instances registered, deregistered or expired between
\* the two calls.
C40_UpdateUsesClaimId ==
    tu.holder # NULL => tu.instance_id = tu.holder

====
